---- MODULE Spec2Model ----
(***************************************************************************)
(* Verkle trie of portal-verkle: leaf (extension) nodes, branch nodes,     *)
(* the incremental commitment algebra, and the bundle/fragment projection. *)
(*                                                                         *)
(* Points are elements of the free module over the scalar ring with one    *)
(* basis vector per CRS generator G[0..255]: a point is the function from  *)
(* the basis indices with a non-zero coefficient to that coefficient, so   *)
(* "independent generators" is exact.  Scalars are integers modulo         *)
(* FieldModulus.  Array and byte indices are 0-based as in the source,     *)
(* except Stem and TrieKey, which are TLA+ sequences: byte d of the source *)
(* is element d + 1 here.  A 256-element array (the children of a branch   *)
(* or of a leaf) is the function from the indices of its entries other     *)
(* than Node::Empty / None to those entries; ArrayGet and ArraySet read    *)
(* and write an element of the whole index range.                          *)
(***************************************************************************)
EXTENDS Integers, Sequences, FiniteSets, TLC

VARIABLES
    leaf,     \* a stand-alone LeafNode
    nsets,    \* number of set calls made on it
    root,     \* the root BranchNode of the trie
    nops,     \* number of insert / update calls made on the root
    err,      \* the error of the update that failed, if any
    written,  \* key -> value of the writes applied to the trie so far
    ret,      \* the last call: its arguments, what it returned, the node before it
    genesis_config,  \* the GenesisConfig read from the genesis file, once read
    gossip,   \* the Gossiper: where its task stands and what it has left to send
    fragment_node,  \* a BranchFragmentNode and the set calls made on it
    fetcher   \* fetch_state_trie: its stack, its trie and what it returned

vars ==
    <<leaf, nsets, root, nops, err, written, ret, genesis_config, gossip,
      fragment_node, fetcher>>

---------------------------------------------------------------------------
(* Bounds of the model *)

\* the scalar ring is Z / FieldModulus
FieldModulus == 10007
\* TrieValues are the 32-byte values whose two 16-byte halves are n and 2n, n <= MaxValue
MaxValue == 1
\* number of LeafNode::set calls on the stand-alone leaf
MaxSets == 3
\* number of insert / update calls on the trie
MaxOps == 3
\* number of slots the gossiper is started with (--slots)
MaxSlots == 2

(* Program constants *)

VERKLE_NODE_WIDTH == 256
PORTAL_NETWORK_NODE_WIDTH == 16
StemLen == 31
EXTENSION_MARKER_INDEX == 0
EXTENSION_STEM_INDEX == 1
EXTENSION_C1_INDEX == 2
EXTENSION_C2_INDEX == 3

---------------------------------------------------------------------------
(* Option<T> *)

None == <<>>
Some(x) == <<x>>
IsSome(o) == o # None
Unwrap(o) == o[1]

Min(S) == CHOOSE x \in S : \A y \in S : x <= y

(* [T; VERKLE_NODE_WIDTH] with a default element *)

ArrayNew == <<>>
ArrayGet(array, index, default) ==
    IF index \in DOMAIN array THEN array[index] ELSE default
ArraySet(array, index, element, default) ==
    [i \in IF element = default THEN DOMAIN array \ {index} ELSE DOMAIN array \cup {index}
        |-> IF i = index THEN element ELSE array[i]]

---------------------------------------------------------------------------
(* Scalar field and group of points *)

ScalarZero == 0
ScalarAdd(a, b) == (a + b) % FieldModulus
ScalarSub(a, b) == ((a - b) + FieldModulus) % FieldModulus
ScalarFrom(n) == n % FieldModulus

PointZero == <<>>
PointIsZero(p) == DOMAIN p = {}
Coef(p, i) == IF i \in DOMAIN p THEN p[i] ELSE 0

\* Element += Element
PointAdd(p, q) ==
    LET d == DOMAIN p \cup DOMAIN q
        s == [i \in d |-> ScalarAdd(Coef(p, i), Coef(q, i))]
    IN  [i \in {j \in d : s[j] # 0} |-> s[i]]

\* G[index] * scalar
scalar_mul(index, scalar) ==
    IF scalar = 0 THEN PointZero ELSE [i \in {index} |-> scalar]

\* sum of G[index] * scalar over a sequence of <<index, scalar>>
RECURSIVE commit_sparse(_)
commit_sparse(entries) ==
    IF entries = <<>> THEN PointZero
    ELSE PointAdd(scalar_mul(Head(entries)[1], Head(entries)[2]),
                  commit_sparse(Tail(entries)))

RECURSIVE HashFold(_, _, _)
HashFold(p, S, acc) ==
    IF S = {} THEN acc
    ELSE LET i == Min(S)
         IN  HashFold(p, S \ {i},
                      (acc * 31 + p[i] * p[i] + (i + 1) * p[i] + 1) % FieldModulus)

\* a fixed map from points to scalars that is no homomorphism; the zero
\* point maps to the zero scalar
map_to_scalar_field(p) == HashFold(p, DOMAIN p, 0)

---------------------------------------------------------------------------
(* Stem, TrieKey, TrieValue *)

\* 2^n mod FieldModulus, by repeated squaring
RECURSIVE Pow2Mod(_)
Pow2Mod(n) ==
    IF n <= 16 THEN (2 ^ n) % FieldModulus
    ELSE LET h == Pow2Mod(n \div 2)
         IN  IF n % 2 = 0 THEN (h * h) % FieldModulus
             ELSE (2 * ((h * h) % FieldModulus)) % FieldModulus

\* the little-endian integer of bytes[lo..hi] modulo FieldModulus, by halves
RECURSIVE LeBytesRange(_, _, _)
LeBytesRange(bytes, lo, hi) ==
    IF lo > hi THEN 0
    ELSE IF lo = hi THEN bytes[lo] % FieldModulus
    ELSE LET mid == (lo + hi) \div 2
         IN  (LeBytesRange(bytes, lo, mid)
              + Pow2Mod(8 * (mid + 1 - lo)) * LeBytesRange(bytes, mid + 1, hi))
             % FieldModulus

\* Fr::from_le_bytes_mod_order of the bytes from the i-th on: the first
\* byte is the least significant
LeBytesModOrder(bytes, i) == LeBytesRange(bytes, i, Len(bytes))

key_stem(key) == SubSeq(key, 1, StemLen)
key_suffix(key) == key[StemLen + 1]
starts_with_stem(key, stem) == SubSeq(key, 1, StemLen) = stem
MkKey(stem, suffix) == Append(stem, suffix)

\* a TrieValue is <<lo, hi>>: the little-endian integers of its bytes 0..15
\* and 16..31; split() sets the leaf marker 2^128 in the low half
split(value) ==
    <<ScalarAdd(ScalarFrom(value[1]), Pow2Mod(128)), ScalarFrom(value[2])>>

---------------------------------------------------------------------------
(* LeafNode (portal-verkle-trie/src/nodes/leaf.rs) *)

\* the <<index, scalar>> entries of the present children of one half whose
\* suffix_index is in S, in increasing suffix_index
RECURSIVE suffix_entries(_, _)
suffix_entries(suffix_children, S) ==
    IF S = {} THEN <<>>
    ELSE LET suffix_index == Min(S)
             low_high == split(Unwrap(ArrayGet(suffix_children, suffix_index, None)))
         IN  << <<2 * suffix_index, low_high[1]>>,
                <<2 * suffix_index + 1, low_high[2]>> >>
             \o suffix_entries(suffix_children, S \ {suffix_index})

suffix_commitment(suffix_children) ==
    commit_sparse(suffix_entries(suffix_children,
        {suffix_index \in 0..(VERKLE_NODE_WIDTH \div 2 - 1) :
            IsSome(ArrayGet(suffix_children, suffix_index, None))}))

LeafNewWithChildrent(stem, children) ==
    LET \* children.split_at(VERKLE_NODE_WIDTH / 2)
        children_first_half ==
            [i \in {j \in DOMAIN children : j < VERKLE_NODE_WIDTH \div 2} |-> children[i]]
        children_second_half ==
            [i \in {j - VERKLE_NODE_WIDTH \div 2 :
                        j \in {k \in DOMAIN children : k >= VERKLE_NODE_WIDTH \div 2}}
                |-> children[i + VERKLE_NODE_WIDTH \div 2]]
        c1 == suffix_commitment(children_first_half)
        c2 == suffix_commitment(children_second_half)
        marker == 1
    IN  [type |-> "Leaf",
         marker |-> marker,
         stem |-> stem,
         commitment |-> commit_sparse(<<
             <<EXTENSION_MARKER_INDEX, ScalarFrom(marker)>>,
             <<EXTENSION_STEM_INDEX, LeBytesModOrder(stem, 1)>>,
             <<EXTENSION_C1_INDEX, map_to_scalar_field(c1)>>,
             <<EXTENSION_C2_INDEX, map_to_scalar_field(c2)>> >>),
         c1 |-> c1,
         c2 |-> c2,
         children |-> children]

LeafNew(stem) ==
    LeafNewWithChildrent(stem, ArrayNew)

LeafCommitmentHash(l) == map_to_scalar_field(l.commitment)

\* the diff that forgets the value that was stored
SuffixCommitmentDiff_NoOld(suffix_index, new, old) ==
    PointAdd(scalar_mul(2 * suffix_index, new[1]),
             scalar_mul(2 * suffix_index + 1, new[2]))

\* G[2s] * (new_low - old_low) + G[2s + 1] * (new_high - old_high)
SuffixCommitmentDiff(suffix_index, new, old) ==
    PointAdd(scalar_mul(2 * suffix_index, ScalarSub(new[1], old[1])),
             scalar_mul(2 * suffix_index + 1, ScalarSub(new[2], old[2])))

LeafSet(l, index, child) ==
    LET new == split(child)
        old_child == ArrayGet(l.children, index, None)
        old == IF IsSome(old_child) THEN split(Unwrap(old_child))
               ELSE <<ScalarZero, ScalarZero>>
        suffix_index == index % (VERKLE_NODE_WIDTH \div 2)
        suffix_commitment_diff == SuffixCommitmentDiff(suffix_index, new, old)
        children == ArraySet(l.children, index, Some(child), None)
    IN  IF index < VERKLE_NODE_WIDTH \div 2
        THEN LET c1 == PointAdd(l.c1, suffix_commitment_diff)
             IN  [l EXCEPT !.children = children,
                           !.c1 = c1,
                           !.commitment = PointAdd(l.commitment,
                               scalar_mul(EXTENSION_C1_INDEX, map_to_scalar_field(c1)))]
        ELSE LET c2 == PointAdd(l.c2, suffix_commitment_diff)
             IN  [l EXCEPT !.children = children,
                           !.c2 = c2,
                           !.commitment = PointAdd(l.commitment,
                               scalar_mul(EXTENSION_C2_INDEX, map_to_scalar_field(c2)))]

LeafGet(l, index) == ArrayGet(l.children, index, None)

---------------------------------------------------------------------------
(* Commitment: a point with a lazily computed, memoised hash *)

\* a zero that is the first generator
CommitmentZero_Generator == [point |-> scalar_mul(0, 1), hash |-> None]

CommitmentZero == [point |-> PointZero, hash |-> None]

\* a += that keeps the memoised hash
CommitmentAddAssign_KeepHash(c, delta) == [c EXCEPT !.point = PointAdd(c.point, delta)]

\* commitment += delta: the memoised hash is dropped
CommitmentAddAssign(c, delta) == [point |-> PointAdd(c.point, delta), hash |-> None]

\* commitment_hash(): the memoised hash when there is one
CommitmentHash(c) == IF IsSome(c.hash) THEN Unwrap(c.hash) ELSE map_to_scalar_field(c.point)

\* the Commitment after commitment_hash() has run on it
CommitmentHashed(c) == [c EXCEPT !.hash = Some(CommitmentHash(c))]

---------------------------------------------------------------------------
(* Node = Empty | Branch | Leaf *)

Empty == [type |-> "Empty"]

NodeCommitment(node) ==
    CASE node.type = "Empty" -> PointZero
      [] node.type = "Branch" -> node.commitment.point
      [] node.type = "Leaf" -> node.commitment

\* Node::commitment_hash(&mut self): the value returned
NodeCommitmentHash(node) ==
    CASE node.type = "Empty" -> ScalarZero
      [] node.type = "Branch" -> CommitmentHash(node.commitment)
      [] node.type = "Leaf" -> LeafCommitmentHash(node)

\* Node::commitment_hash(&mut self): the node it leaves behind
NodeHashed(node) ==
    IF node.type = "Branch"
    THEN [node EXCEPT !.commitment = CommitmentHashed(node.commitment)]
    ELSE node

---------------------------------------------------------------------------
(* LeafNode::update: the writes of one stem, applied in the iteration      *)
(* order of the write map.  A StemStateWrite is [stem, writes] with writes *)
(* the sequence of [suffix, expected, value] in that order; expected is    *)
(* None when the old value is not checked, else Some(Option<TrieValue>).   *)

RECURSIVE LeafApplyWrites(_, _)
LeafApplyWrites(l, writes) ==
    IF writes = <<>> THEN [leaf |-> l, err |-> None]
    ELSE LET w == Head(writes)
         IN  IF IsSome(w.expected) /\ Unwrap(w.expected) # LeafGet(l, w.suffix)
             THEN [leaf |-> l, err |-> Some("WrongOldValue")]
             ELSE LeafApplyWrites(LeafSet(l, w.suffix, w.value), Tail(writes))

LeafUpdate(l, state_write) ==
    IF state_write.stem # l.stem
    THEN [leaf |-> l, err |-> Some("UnexpectedStem")]
    ELSE LeafApplyWrites(l, state_write.writes)

---------------------------------------------------------------------------
(* BranchNode (portal-verkle/src/verkle_trie/nodes/branch.rs) *)

Panic == [type |-> "Panic"]

\* the depth check that is off by one: the deepest branch is refused
BranchNew_LastDepthRefused(depth) ==
    IF depth >= StemLen - 1 THEN Panic
    ELSE [type |-> "Branch",
          depth |-> depth,
          commitment |-> CommitmentZero,
          children |-> ArrayNew]

BranchNew(depth) ==
    IF depth >= StemLen THEN Panic
    ELSE [type |-> "Branch",
          depth |-> depth,
          commitment |-> CommitmentZero,
          children |-> ArrayNew]

\* the lookup that trusts the path to have led to the key's own leaf
LeafLookup_NoStemCheck(leaf_node, key) == LeafGet(leaf_node, key_suffix(key))

\* the Node::Leaf arm of get
LeafLookup(leaf_node, key) ==
    IF starts_with_stem(key, leaf_node.stem)
    THEN LeafGet(leaf_node, key_suffix(key))
    ELSE None

RECURSIVE BranchGet(_, _)
BranchGet(b, key) ==
    LET index == key[b.depth + 1]
        child == ArrayGet(b.children, index, Empty)
    IN  CASE child.type = "Empty" -> None
          [] child.type = "Branch" -> BranchGet(child, key)
          [] child.type = "Leaf" -> LeafLookup(child, key)

\* the delta that forgets the old hash of the child
BranchAddDelta_NoOld(b, index, new_hash, old_hash) ==
    CommitmentAddAssign(b.commitment, scalar_mul(index, new_hash))

\* self.commitment += G[index] * (new - old)
BranchAddDelta(b, index, new_hash, old_hash) ==
    CommitmentAddAssign(b.commitment, scalar_mul(index, ScalarSub(new_hash, old_hash)))

\* the index read at the depth of the parent instead of the new branch
OldChildIndexInNewBranch_ParentDepth(stem, depth) == stem[depth + 1]

\* leaf_node.stem()[self.depth + 1]
OldChildIndexInNewBranch(stem, depth) == stem[depth + 1 + 1]

\* the path cut at the depth of the parent instead of the new branch
PathToCreatedBranch_ParentDepth(stem, branch_depth) == SubSeq(stem, 1, branch_depth - 1)

\* TriePath::from(state_write.stem[..branch_node.depth])
PathToCreatedBranch(stem, branch_depth) == SubSeq(stem, 1, branch_depth)

\* the commitment is updated but the child is not stored
set_child_NotStored(b, index, child) ==
    [b EXCEPT !.commitment =
                  BranchAddDelta(b, index, NodeCommitmentHash(child),
                                 NodeCommitmentHash(ArrayGet(b.children, index, Empty)))]

set_child(b, index, child) ==
    [b EXCEPT !.commitment =
                  BranchAddDelta(b, index, NodeCommitmentHash(child),
                                 NodeCommitmentHash(ArrayGet(b.children, index, Empty))),
              !.children = ArraySet(b.children, index, NodeHashed(child), Empty)]

\* BranchNode::insert; Panic when BranchNode::new aborts
RECURSIVE BranchInsert(_, _, _)
BranchInsert(b, key, value) ==
    LET index == key[b.depth + 1]
        old_commitment_hash == NodeCommitmentHash(ArrayGet(b.children, index, Empty))
        child == NodeHashed(ArrayGet(b.children, index, Empty))
        same_stem == child.type = "Leaf" /\ child.stem = key_stem(key)
        other_stem == child.type = "Leaf" /\ child.stem # key_stem(key)
        \* the branch the call goes on in: the child, or the new branch that
        \* holds the old leaf
        branch_node ==
            IF child.type = "Branch" THEN child
            ELSE LET old_child_index_in_new_branch ==
                         OldChildIndexInNewBranch(child.stem, b.depth)
                     new_branch == BranchNew(b.depth + 1)
                 IN  IF new_branch = Panic THEN Panic
                     ELSE set_child(new_branch, old_child_index_in_new_branch, child)
        inserted == BranchInsert(branch_node, key, value)
        new_child ==
            CASE child.type = "Empty" ->
                   LeafSet(LeafNew(key_stem(key)), key_suffix(key), value)
              [] same_stem -> LeafSet(child, key_suffix(key), value)
              [] OTHER -> inserted
        done ==
            [b EXCEPT !.commitment =
                          BranchAddDelta(b, index, NodeCommitmentHash(new_child),
                                         old_commitment_hash),
                      !.children =
                          ArraySet(b.children, index, NodeHashed(new_child), Empty)]
    IN  CASE child.type = "Empty" \/ same_stem -> done
          [] branch_node = Panic -> Panic
          [] inserted = Panic -> Panic
          [] OTHER -> done

\* BranchNode::update: [node, path, err]; with err set, node is the branch
\* as the early return of `?` leaves it; Panic for node when BranchNode::new
\* aborts
RECURSIVE BranchUpdate(_, _)
BranchUpdate(b, state_write) ==
    LET index == state_write.stem[b.depth + 1]
        old_commitment_hash == NodeCommitmentHash(ArrayGet(b.children, index, Empty))
        child == NodeHashed(ArrayGet(b.children, index, Empty))
        same_stem == child.type = "Leaf" /\ child.stem = state_write.stem
        other_stem == child.type = "Leaf" /\ child.stem # state_write.stem
        leaf_result ==
            IF child.type = "Empty"
            THEN LeafUpdate(LeafNew(state_write.stem), state_write)
            ELSE LeafUpdate(child, state_write)
        \* the branch the call goes on in: the child, or the new branch that
        \* holds the old leaf
        branch_node ==
            IF child.type = "Branch" THEN child
            ELSE LET old_child_index_in_new_branch ==
                         OldChildIndexInNewBranch(child.stem, b.depth)
                     new_branch == BranchNew(b.depth + 1)
                 IN  IF new_branch = Panic THEN Panic
                     ELSE set_child(new_branch, old_child_index_in_new_branch, child)
        branch_result == BranchUpdate(branch_node, state_write)
        \* the child slot at the early return
        left_behind ==
            CASE child.type = "Empty" -> Empty
              [] child.type = "Branch" -> branch_result.node
              [] same_stem -> leaf_result.leaf
              [] other_stem -> Empty
        new_child ==
            IF child.type = "Branch" \/ other_stem
            THEN branch_result.node ELSE leaf_result.leaf
        path_to_created_branch ==
            CASE child.type = "Branch" -> branch_result.path
              [] other_stem -> Some(PathToCreatedBranch(state_write.stem, b.depth + 1))
              [] OTHER -> None
        returned(failed) ==
            [node |-> [b EXCEPT !.children = ArraySet(b.children, index, left_behind, Empty)],
             path |-> None,
             err |-> failed]
        done ==
            [node |-> [b EXCEPT !.commitment =
                                    BranchAddDelta(b, index,
                                                   NodeCommitmentHash(new_child),
                                                   old_commitment_hash),
                                !.children =
                                    ArraySet(b.children, index, NodeHashed(new_child), Empty)],
             path |-> path_to_created_branch,
             err |-> None]
        aborted == [node |-> Panic, path |-> None, err |-> None]
    IN  CASE child.type = "Empty" \/ same_stem ->
               IF IsSome(leaf_result.err) THEN returned(leaf_result.err) ELSE done
          [] branch_node = Panic -> aborted
          [] branch_result.node = Panic -> aborted
          [] branch_result.err # None -> returned(branch_result.err)
          [] OTHER -> done

\* BranchNode::update of portal-bridge: [node, err]; it returns no path
RECURSIVE BridgeBranchUpdate(_, _)
BridgeBranchUpdate(b, state_write) ==
    LET index == state_write.stem[b.depth + 1]
        old_commitment_hash == NodeCommitmentHash(ArrayGet(b.children, index, Empty))
        child == NodeHashed(ArrayGet(b.children, index, Empty))
        same_stem == child.type = "Leaf" /\ child.stem = state_write.stem
        other_stem == child.type = "Leaf" /\ child.stem # state_write.stem
        leaf_result ==
            IF child.type = "Empty"
            THEN LeafUpdate(LeafNew(state_write.stem), state_write)
            ELSE LeafUpdate(child, state_write)
        branch_node ==
            IF child.type = "Branch" THEN child
            ELSE LET old_child_index_in_new_branch ==
                         OldChildIndexInNewBranch(child.stem, b.depth)
                     new_branch == BranchNew(b.depth + 1)
                 IN  IF new_branch = Panic THEN Panic
                     ELSE set_child(new_branch, old_child_index_in_new_branch, child)
        branch_result == BridgeBranchUpdate(branch_node, state_write)
        left_behind ==
            CASE child.type = "Empty" -> Empty
              [] child.type = "Branch" -> branch_result.node
              [] same_stem -> leaf_result.leaf
              [] other_stem -> Empty
        new_child ==
            IF child.type = "Branch" \/ other_stem
            THEN branch_result.node ELSE leaf_result.leaf
        returned(failed) ==
            [node |-> [b EXCEPT !.children = ArraySet(b.children, index, left_behind, Empty)],
             err |-> failed]
        done ==
            [node |-> [b EXCEPT !.commitment =
                                    BranchAddDelta(b, index,
                                                   NodeCommitmentHash(new_child),
                                                   old_commitment_hash),
                                !.children =
                                    ArraySet(b.children, index, NodeHashed(new_child), Empty)],
             err |-> None]
        aborted == [node |-> Panic, err |-> None]
    IN  CASE child.type = "Empty" \/ same_stem ->
               IF IsSome(leaf_result.err) THEN returned(leaf_result.err) ELSE done
          [] branch_node = Panic -> aborted
          [] branch_result.node = Panic -> aborted
          [] branch_result.err # None -> returned(branch_result.err)
          [] OTHER -> done

---------------------------------------------------------------------------
(* Bundle / fragment projection of a branch *)

\* the index without the start of the fragment
FragmentChildIndex_NoStart(fragment_index, fragment_child_index) ==
    fragment_index + fragment_child_index

\* start_index + fragment_child_index
FragmentChildIndex(fragment_index, fragment_child_index) ==
    fragment_index * PORTAL_NETWORK_NODE_WIDTH + fragment_child_index

\* the loop of get_fragment_commitment over fragment_child_index < n
RECURSIVE FragmentLoop(_, _, _)
FragmentLoop(b, fragment_index, n) ==
    IF n = 0 THEN PointZero
    ELSE LET index == FragmentChildIndex(fragment_index, n - 1)
             child_commitment == NodeCommitment(ArrayGet(b.children, index, Empty))
             commitment == FragmentLoop(b, fragment_index, n - 1)
         IN  IF ~PointIsZero(child_commitment)
             THEN PointAdd(commitment,
                           scalar_mul(index, map_to_scalar_field(child_commitment)))
             ELSE commitment

get_fragment_commitment(b, fragment_index) ==
    LET commitment == FragmentLoop(b, fragment_index, PORTAL_NETWORK_NODE_WIDTH)
    IN  IF PointIsZero(commitment) THEN None ELSE Some(commitment)

\* the proof is a placeholder of zero points
bundle_proof(fragment_commitments) == "dummy_multiproof"

extract_bundle_node(b) ==
    LET fragment_commitments ==
            [fragment_index \in 0..(PORTAL_NETWORK_NODE_WIDTH - 1) |->
                get_fragment_commitment(b, fragment_index)]
    IN  [fragments |-> fragment_commitments,
         proof |-> bundle_proof(fragment_commitments)]

---------------------------------------------------------------------------
(* Inputs *)

\* 31-byte stems: the given leading bytes, then zeros
MkStem(lead) == [i \in 1..StemLen |-> IF i <= Len(lead) THEN lead[i] ELSE 0]

StemA == MkStem(<<0, 1>>)
StemB == MkStem(<<0, 1, 5>>)
StemC == MkStem(<<0, 200>>)
TrieStems == {StemA, StemB, StemC}

TrieValues == {<<n, 2 * n>> : n \in 0..MaxValue}

\* suffixes written to the stand-alone leaf: both ends of both halves
LeafSuffixes == {0, 1, 127, 128, 255}
\* suffixes written to the trie: two of the first half, one of the second
TrieSuffixes == {0, 1, 128}

TrieKeys == {MkKey(stem, suffix) : stem \in TrieStems, suffix \in TrieSuffixes}

Write(suffix, expected, value) ==
    [suffix |-> suffix, expected |-> expected, value |-> value]

ValueLo == <<0, 0>>
ValueHi == <<MaxValue, 2 * MaxValue>>

\* the write maps of one stem, each in every iteration order of the map:
\* one write, unchecked or expecting an empty slot; two writes to the same
\* half; two writes to the two halves, the second half's expecting an
\* empty slot
WriteMaps ==
    {<<Write(0, expected, ValueHi)>> : expected \in {None, Some(None)}}
    \cup {<<Write(0, None, ValueHi), Write(1, None, ValueLo)>>,
          <<Write(1, None, ValueLo), Write(0, None, ValueHi)>>}
    \cup {<<Write(1, None, ValueLo), Write(128, Some(None), ValueHi)>>,
          <<Write(128, Some(None), ValueHi), Write(1, None, ValueLo)>>}

StemStateWrites == [stem : TrieStems, writes : WriteMaps]

\* stems that agree on their first 30 and 29 bytes
DeepStemA == MkStem(<<>>)
DeepStemB == [DeepStemA EXCEPT ![StemLen] = 1]
DeepStemC == [DeepStemA EXCEPT ![StemLen - 1] = 1]
DeepStems == {DeepStemA, DeepStemB, DeepStemC}
DeepKeys == {MkKey(stem, suffix) : stem \in DeepStems, suffix \in {0, 128}}
DeepStemStateWrites ==
    [stem : DeepStems,
     writes : {<<Write(0, None, ValueHi)>>,
               <<Write(1, None, ValueLo), Write(128, Some(None), ValueHi)>>}]

---------------------------------------------------------------------------
(* State machine *)

\* the write map after the writes, in order
RECURSIVE ApplyWrites(_, _, _)
ApplyWrites(map, stem, writes) ==
    IF writes = <<>> THEN map
    ELSE ApplyWrites(
             [k \in DOMAIN map \cup {MkKey(stem, Head(writes).suffix)} |->
                 IF k = MkKey(stem, Head(writes).suffix) THEN Head(writes).value
                 ELSE map[k]],
             stem, Tail(writes))

\* Gossiper::new: no task started, nothing to send
\* no fetch_state_trie call made yet
FetcherNew == [pc |-> "idle", stack |-> <<>>, trie |-> None, result |-> None, fetches |-> 0]

\* block_number is the number of the last block VerkleEvm has processed
GossiperNew ==
    [pc |-> "idle", slot |-> 0, queue |-> <<>>, sent |-> 0, at_start |-> None,
     gossiped |-> {}, block_number |-> 0]

Init ==
    /\ leaf = LeafNew(StemA)
    /\ nsets = 0
    /\ root = BranchNew(0)
    /\ nops = 0
    /\ err = None
    /\ written = <<>>
    /\ ret = [op |-> "none"]
    /\ genesis_config = None
    /\ gossip = GossiperNew
    /\ fragment_node = [node |-> None, sets |-> <<>>]
    /\ fetcher = FetcherNew

\* LeafNode::set on the stand-alone leaf
LeafSetCall(index, value) ==
    /\ nsets < MaxSets
    /\ leaf' = LeafSet(leaf, index, value)
    /\ nsets' = nsets + 1
    /\ ret' = [op |-> "set", index |-> index, value |-> value, before |-> leaf]
    /\ UNCHANGED <<root, nops, err, written, genesis_config, gossip, fragment_node, fetcher>>

\* BranchNode::insert on the root; an abort ends the run
InsertCall(key, value) ==
    /\ nops < MaxOps
    /\ err = None
    /\ root # Panic
    /\ root' = BranchInsert(root, key, value)
    /\ nops' = nops + 1
    /\ written' = ApplyWrites(written, key_stem(key),
                              <<Write(key_suffix(key), None, value)>>)
    /\ ret' = [op |-> "insert", key |-> key, value |-> value, before |-> root]
    /\ UNCHANGED <<leaf, nsets, err, genesis_config, gossip, fragment_node, fetcher>>

\* BranchNode::update on the root; an error or an abort ends the run
UpdateCall(state_write) ==
    /\ nops < MaxOps
    /\ err = None
    /\ root # Panic
    /\ \E r \in {BranchUpdate(root, state_write)} :
           /\ root' = r.node
           /\ err' = r.err
           /\ written' = IF IsSome(r.err) THEN written
                         ELSE ApplyWrites(written, state_write.stem, state_write.writes)
           /\ ret' = [op |-> "update", state_write |-> state_write,
                      path |-> r.path, before |-> root]
    /\ nops' = nops + 1
    /\ UNCHANGED <<leaf, nsets, genesis_config, gossip, fragment_node, fetcher>>

\* two BranchNode::insert calls on the root, with keys of different stems;
\* ret.swapped is the root the same two calls leave in the other order
InsertPairCall(key1, value1, key2, value2) ==
    /\ nops < MaxOps
    /\ err = None
    /\ key_stem(key1) # key_stem(key2)
    /\ \E first \in {BranchInsert(root, key1, value1)},
          second \in {BranchInsert(root, key2, value2)} :
           /\ root' = BranchInsert(first, key2, value2)
           /\ ret' = [op |-> "pair", key |-> key2, value |-> value2, before |-> root,
                      swapped |-> BranchInsert(second, key1, value1)]
    /\ nops' = nops + 2
    /\ written' = ApplyWrites(
                      ApplyWrites(written, key_stem(key1),
                                  <<Write(key_suffix(key1), None, value1)>>),
                      key_stem(key2), <<Write(key_suffix(key2), None, value2)>>)
    /\ UNCHANGED <<leaf, nsets, err, genesis_config, gossip, fragment_node, fetcher>>

NextLeaf == \E index \in LeafSuffixes, value \in TrieValues : LeafSetCall(index, value)

NextTrie ==
    \/ \E key \in TrieKeys, value \in TrieValues : InsertCall(key, value)
    \/ \E state_write \in StemStateWrites : UpdateCall(state_write)

\* lexicographic order of byte sequences of one length
RECURSIVE SeqLess(_, _)
SeqLess(a, b) ==
    /\ a # <<>>
    /\ \/ Head(a) < Head(b)
       \/ Head(a) = Head(b) /\ SeqLess(Tail(a), Tail(b))

\* the pairs of different stems, each pair once
StemPairs == {pair \in TrieStems \X TrieStems : SeqLess(pair[1], pair[2])}

NextCommute ==
    \/ \E key \in TrieKeys, value \in TrieValues : InsertCall(key, value)
    \/ \E stems \in StemPairs, suffix1 \in TrieSuffixes, suffix2 \in TrieSuffixes,
          value1 \in TrieValues, value2 \in TrieValues :
           InsertPairCall(MkKey(stems[1], suffix1), value1, MkKey(stems[2], suffix2), value2)

\* insert and update with the stems that share the longest prefixes
NextDeep ==
    \/ \E key \in DeepKeys, value \in TrieValues : InsertCall(key, value)
    \/ \E state_write \in DeepStemStateWrites : UpdateCall(state_write)

\* the stand-alone leaf under LeafNode::set
SpecLeaf == Init /\ [][NextLeaf]_vars

\* the trie under BranchNode::insert and BranchNode::update
Spec == Init /\ [][NextTrie]_vars

\* the trie under BranchNode::insert, two calls of different stems taken at once
SpecCommute == Init /\ [][NextCommute]_vars

\* the trie under insert and update of stems that differ in their last bytes only
SpecDeep == Init /\ [][NextDeep]_vars

---------------------------------------------------------------------------
(* Walking the trie *)

\* the set of [path, node] of branch b, found at path, and of all branches below it
RECURSIVE BranchesBelow(_, _)
BranchesBelow(b, path) ==
    {[path |-> path, node |-> b]}
    \cup UNION {BranchesBelow(b.children[i], Append(path, i)) :
                   i \in {j \in DOMAIN b.children : b.children[j].type = "Branch"}}

Branches(b) == {e.node : e \in BranchesBelow(b, <<>>)}
BranchPaths(b) == {e.path : e \in BranchesBelow(b, <<>>)}

\* the leaves below branch b
RECURSIVE LeavesBelow(_)
LeavesBelow(b) ==
    {b.children[i] : i \in {j \in DOMAIN b.children : b.children[j].type = "Leaf"}}
    \cup UNION {LeavesBelow(b.children[i]) :
                   i \in {j \in DOMAIN b.children : b.children[j].type = "Branch"}}

\* the set of [path, index, leaf]: the leaf is child index of the branch at path
RECURSIVE LeafSlots(_, _)
LeafSlots(b, path) ==
    {[path |-> path, index |-> i, leaf |-> b.children[i]] :
        i \in {j \in DOMAIN b.children : b.children[j].type = "Leaf"}}
    \cup UNION {LeafSlots(b.children[i], Append(path, i)) :
                   i \in {j \in DOMAIN b.children : b.children[j].type = "Branch"}}

\* the node found by following path from branch b; Empty when the way ends before
RECURSIVE NodeAt(_, _)
NodeAt(node, path) ==
    IF path = <<>> THEN node
    ELSE IF node.type # "Branch" THEN Empty
    ELSE NodeAt(ArrayGet(node.children, Head(path), Empty), Tail(path))

\* number of leading bytes two stems share, counted from the i-th
RECURSIVE CommonPrefixFrom(_, _, _)
CommonPrefixFrom(s, t, i) ==
    IF i > Len(s) \/ s[i] # t[i] THEN i - 1
    ELSE CommonPrefixFrom(s, t, i + 1)

Max(S) == CHOOSE x \in S : \A y \in S : x >= y

\* sum of G[i] * hash(children[i].commitment) over the indices i in S
RECURSIVE ChildrenCommitment(_, _)
ChildrenCommitment(b, S) ==
    IF S = {} THEN PointZero
    ELSE LET i == Min(S)
         IN  PointAdd(scalar_mul(i, map_to_scalar_field(
                          NodeCommitment(ArrayGet(b.children, i, Empty)))),
                      ChildrenCommitment(b, S \ {i}))

---------------------------------------------------------------------------
(* Claims *)

\* C1: after successful insert and update calls, every branch of the trie,
\* those created by a split and their ancestors included, has
\* commitment = sum over i of G[i] * hash(children[i].commitment), an Empty
\* child counting as the zero scalar.
C1_BranchCommitment ==
    err = None =>
        \A b \in Branches(root) :
            /\ \A i \in 0..(VERKLE_NODE_WIDTH - 1) :
                   i \notin DOMAIN b.children =>
                       map_to_scalar_field(NodeCommitment(ArrayGet(b.children, i, Empty))) = 0
            /\ b.commitment.point = ChildrenCommitment(b, DOMAIN b.children)

\* two splits have happened (a branch at depth 1 and one at depth 2, each with
\* two children) and the last call wrote below them without creating a branch
C1_Witness ==
    /\ err = None
    /\ \E b \in Branches(root) : b.depth = 2 /\ Cardinality(DOMAIN b.children) = 2
    /\ \E b \in Branches(root) : b.depth = 1 /\ Cardinality(DOMAIN b.children) = 2
    /\ ret.op \in {"insert", "update"}
    /\ ret.before # root
    /\ BranchPaths(ret.before) = BranchPaths(root)

\* C2: the outer commitment of a leaf is
\* G[0] * 1 + G[1] * stem + G[2] * hash(c1) + G[3] * hash(c2), the commitment
\* new_with_childrent computes from the current children, after any
\* sequence of set calls.
C2_LeafCommitment ==
    leaf.commitment = LeafNewWithChildrent(leaf.stem, leaf.children).commitment

\* C3: c1 and c2 are the sums of G[2i] * low_i + G[2i + 1] * high_i over the
\* present children of their half (c2 re-indexed by i - 128), and the scalar
\* a set adds on G[2] or G[3] is the hash of the half-commitment as updated
\* by this set.
C3_HalfCommitments ==
    /\ leaf.c1 = LeafNewWithChildrent(leaf.stem, leaf.children).c1
    /\ leaf.c2 = LeafNewWithChildrent(leaf.stem, leaf.children).c2
    /\ ret.op = "set" =>
           leaf.commitment =
               PointAdd(ret.before.commitment,
                        IF ret.index < VERKLE_NODE_WIDTH \div 2
                        THEN scalar_mul(EXTENSION_C1_INDEX, map_to_scalar_field(leaf.c1))
                        ELSE scalar_mul(EXTENSION_C2_INDEX, map_to_scalar_field(leaf.c2)))

\* a value of the second half was overwritten by a different value while
\* both halves hold values
C3_Witness ==
    /\ ret.op = "set"
    /\ ret.index >= VERKLE_NODE_WIDTH \div 2
    /\ IsSome(LeafGet(ret.before, ret.index))
    /\ LeafGet(ret.before, ret.index) # Some(ret.value)
    /\ \E i \in DOMAIN leaf.children : i < VERKLE_NODE_WIDTH \div 2

\* C4: the trie is a map from keys to values: get returns the value of the
\* latest write of the key and None for a key never written (one whose path
\* ends at a leaf of another stem, one of a stored stem with an unwritten
\* suffix), and an insert leaves get of every other key as it was.
StemD == MkStem(<<0, 1, 7>>)
ProbeKeys ==
    {MkKey(stem, suffix) : stem \in TrieStems \cup {StemD}, suffix \in TrieSuffixes \cup {2}}
WrittenGet(key) == IF key \in DOMAIN written THEN Some(written[key]) ELSE None
C4_TrieIsMap ==
    err = None =>
        /\ \A key \in ProbeKeys : BranchGet(root, key) = WrittenGet(key)
        /\ ret.op = "insert" =>
               /\ BranchGet(root, ret.key) = Some(ret.value)
               /\ \A key \in ProbeKeys \ {ret.key} :
                      BranchGet(root, key) = BranchGet(ret.before, key)

\* an insert overwrote a value with another one while the only node below
\* the root is the leaf of its stem, where the paths of all other stems end
C4_Witness ==
    /\ err = None
    /\ ret.op = "insert"
    /\ BranchGet(ret.before, ret.key) \notin {None, Some(ret.value)}
    /\ DOMAIN root.children = {0}
    /\ root.children[0].type = "Leaf"

\* C5: inserting (k, v) a second time leaves the root commitment as the
\* first insert left it.
C5_InsertIdempotent ==
    ret.op = "insert" =>
        BranchInsert(root, ret.key, ret.value).commitment.point = root.commitment.point

\* the node without the memoised hashes of the branches
RECURSIVE StripHashes(_)
StripHashes(node) ==
    IF node.type = "Branch"
    THEN [node EXCEPT !.commitment = [point |-> node.commitment.point, hash |-> None],
                      !.children = [i \in DOMAIN node.children |->
                                       StripHashes(node.children[i])]]
    ELSE node

\* C6: two inserts with keys of different stems leave the same root
\* commitment and the same trie (every node and commitment) in either order.
C6_DifferentStemsCommute ==
    ret.op = "pair" =>
        /\ root.commitment.point = ret.swapped.commitment.point
        /\ StripHashes(root) = StripHashes(ret.swapped)

\* the two inserts met a single leaf below the root and one of them split it
\* through two levels
C6_Witness ==
    /\ ret.op = "pair"
    /\ DOMAIN ret.before.children = {0}
    /\ ret.before.children[0].type = "Leaf"
    /\ Cardinality(BranchPaths(root)) = 3
    /\ Cardinality(LeavesBelow(root)) = 3

\* C7: the writes of one stem leave the same root commitment in every order
\* of application.
C7_OrderIndependent ==
    (ret.op = "update" /\ err = None /\ Len(ret.state_write.writes) = 2) =>
        LET reversed == [ret.state_write EXCEPT
                            !.writes = <<ret.state_write.writes[2],
                                         ret.state_write.writes[1]>>]
            other == BranchUpdate(ret.before, reversed)
        IN  other.err = None => other.node.commitment.point = root.commitment.point

\* sum of the present fragment commitments with fragment index in S
RECURSIVE SumFragments(_, _)
SumFragments(fragments, S) ==
    IF S = {} THEN PointZero
    ELSE LET f == Min(S)
         IN  PointAdd(IF IsSome(fragments[f]) THEN Unwrap(fragments[f]) ELSE PointZero,
                      SumFragments(fragments, S \ {f}))

\* C8: the fragment commitments of the bundle of a branch add up to the
\* commitment of the branch.
C8_BundleSum ==
    err = None =>
        \A b \in Branches(root) :
            LET fragments == extract_bundle_node(b).fragments
            IN  SumFragments(fragments, DOMAIN fragments) = b.commitment.point

\* a branch has children in two fragments, the first of them not fragment 0
\* only
C8_Witness ==
    /\ err = None
    /\ \E b \in Branches(root) :
           Cardinality({f \in 0..(PORTAL_NETWORK_NODE_WIDTH - 1) :
                           IsSome(extract_bundle_node(b).fragments[f])}) >= 2

\* C9: the paths an update reports as newly created contain the path of
\* every branch that exists after the update and did not before it.
C9_AllNewBranchesReported ==
    (ret.op = "update" /\ err = None) =>
        BranchPaths(root) \ BranchPaths(ret.before)
            \subseteq (IF IsSome(ret.path) THEN {Unwrap(ret.path)} ELSE {})

\* where the descent of a stem ends in the trie below b
RECURSIVE Landing(_, _)
Landing(b, stem) ==
    LET child == ArrayGet(b.children, stem[b.depth + 1], Empty)
    IN  CASE child.type = "Empty" -> "Empty"
          [] child.type = "Branch" -> Landing(child, stem)
          [] child.type = "Leaf" ->
               IF child.stem = stem THEN "SameStem" ELSE "OtherStem"

StoredStems == {key_stem(key) : key \in DOMAIN written}

\* every stem of stems has exactly one leaf in trie, the child at index s[d]
\* of the branch of depth d at path s[0..d), d the longest prefix s shares
\* with another stem of stems
Placement(trie, stems) ==
    LET slots == LeafSlots(trie, <<>>)
    IN  /\ {e.leaf.stem : e \in slots} = stems
        /\ Cardinality(slots) = Cardinality(stems)
        /\ \A e \in slots :
               LET s == e.leaf.stem
                   d == Max({0} \cup {CommonPrefixFrom(s, t, 1) : t \in stems \ {s}})
               IN  /\ e.path = SubSeq(s, 1, d)
                   /\ e.index = s[d + 1]
                   /\ NodeAt(trie, e.path).type = "Branch"
                   /\ NodeAt(trie, e.path).depth = d

\* the last call met the leaf of another stem where its descent ended
SplitCall ==
    /\ err = None
    /\ ret.op \in {"insert", "update"}
    /\ Landing(ret.before,
               IF ret.op = "insert" THEN key_stem(ret.key) ELSE ret.state_write.stem)
           = "OtherStem"

\* the stem the last call wrote
CallStem == IF ret.op = "insert" THEN key_stem(ret.key) ELSE ret.state_write.stem

\* the [path, index, leaf] of ret.before where the descent of the last call ended
SplitSlot ==
    CHOOSE e \in LeafSlots(ret.before, <<>>) :
        /\ e.path = SubSeq(CallStem, 1, Len(e.path))
        /\ e.index = CallStem[Len(e.path) + 1]

\* the placement of every stored stem, in the trie and in the trie the
\* update of portal-bridge leaves
C14_Placement ==
    err = None =>
        /\ Placement(root, StoredStems)
        /\ ret.op = "update" =>
               LET bridge == BridgeBranchUpdate(ret.before, ret.state_write)
               IN  bridge.err = None /\ Placement(bridge.node, StoredStems)

\* C14 as stated: each stored stem has exactly one leaf, placed by its
\* longest shared prefix, and a write that meets the leaf of another stem in
\* a slot of a branch at depth d turns the slot into a branch at depth d + 1
\* that holds the old leaf at index old_stem[d + 1] and the leaf of the
\* written stem below it.
C14_SplitHoldsOldLeaf ==
    /\ C14_Placement
    /\ SplitCall =>
           LET d == Len(SplitSlot.path)
               old == SplitSlot.leaf
               slot == NodeAt(root, Append(SplitSlot.path, SplitSlot.index))
           IN  /\ slot.type = "Branch"
               /\ slot.depth = d + 1
               /\ ArrayGet(slot.children, old.stem[d + 2], Empty) = old
               /\ \E l \in LeavesBelow(slot) : l.stem = CallStem

\* C14 (amended): as stated, except that the child at index old_stem[d + 1]
\* of the new branch is the old leaf only when the two stems differ at byte
\* d + 1; when they agree there it is a further branch, at depth d + 2, with
\* the old leaf and the leaf of the written stem below it.
C14_SplitHoldsOldLeafBelow ==
    /\ C14_Placement
    /\ SplitCall =>
           LET d == Len(SplitSlot.path)
               old == SplitSlot.leaf
               slot == NodeAt(root, Append(SplitSlot.path, SplitSlot.index))
               below == ArrayGet(slot.children, old.stem[d + 2], Empty)
           IN  /\ slot.type = "Branch"
               /\ slot.depth = d + 1
               /\ \E l \in LeavesBelow(slot) : l.stem = CallStem
               /\ IF old.stem[d + 2] # CallStem[d + 2]
                  THEN below = old
                  ELSE /\ below.type = "Branch"
                       /\ below.depth = d + 2
                       /\ old \in LeavesBelow(below)
                       /\ \E l \in LeavesBelow(below) : l.stem = CallStem

\* a write split a leaf below the root through two levels: the stems agree
\* on the byte after the slot
C14_Witness ==
    /\ SplitCall
    /\ Len(SplitSlot.path) = 0
    /\ SplitSlot.leaf.stem[2] = CallStem[2]
    /\ Cardinality(StoredStems) = 2

\* C16: across successful calls no node is destroyed or collapsed: a path
\* that leads to a branch leads to a branch ever after, every stored key
\* stays stored, every leaf stays where it is or moves below a branch created
\* in its slot, and the sets of branch paths and of stored keys only grow.
C16_NeverDestroyed ==
    [][(err = None /\ err' = None) =>
          /\ BranchPaths(root) \subseteq BranchPaths(root')
          /\ DOMAIN written \subseteq DOMAIN written'
          /\ \A key \in DOMAIN written : BranchGet(root', key) # None
          /\ \A e \in LeafSlots(root, <<>>) :
                 \E f \in LeafSlots(root', <<>>) :
                     /\ f.leaf.stem = e.leaf.stem
                     /\ Len(f.path) >= Len(e.path)
                     /\ SubSeq(f.path, 1, Len(e.path)) = e.path
                     /\ f.path # e.path =>
                            /\ f.path[Len(e.path) + 1] = e.index
                            /\ Append(e.path, e.index) \notin BranchPaths(root)
          /\ \A p \in BranchPaths(root) :
                 DOMAIN NodeAt(root, p).children \subseteq DOMAIN NodeAt(root', p).children
      ]_vars

\* a branch below the root has a single child, had it before the last call,
\* and the last call wrote below it
C16_Witness ==
    /\ err = None
    /\ ret.op \in {"insert", "update"}
    /\ ret.before # root
    /\ \E p \in BranchPaths(ret.before) \ {<<>>} :
           /\ Cardinality(DOMAIN NodeAt(ret.before, p).children) = 1
           /\ Cardinality(DOMAIN NodeAt(root, p).children) = 1
           /\ NodeAt(root, p) # NodeAt(ret.before, p)

\* C20: a fresh trie, a root branch of depth 0 with every child Empty, has
\* the zero point as root commitment and the zero scalar as root hash, and get
\* returns None for every key.
C20_FreshTrie ==
    nops = 0 =>
        /\ root.depth = 0
        /\ \A i \in 0..(VERKLE_NODE_WIDTH - 1) : ArrayGet(root.children, i, Empty) = Empty
        /\ PointIsZero(root.commitment.point)
        /\ NodeCommitment(root) = PointZero
        /\ NodeCommitmentHash(root) = ScalarZero
        /\ \A key \in ProbeKeys : BranchGet(root, key) = None

\* the trie as BranchNode::new(0) leaves it, before any call
C20_Witness ==
    /\ nops = 0
    /\ ret.op = "none"
    /\ root.type = "Branch"
    /\ root.children = ArrayNew

\* C15: the depth of every branch is the number of stem bytes that lead to
\* it and lies in 0..30; no call builds a branch at depth 31 or more (so
\* BranchNode::new never aborts), and the byte stem[depth + 1] a split would
\* read, for any stem written next, is within the stem.
C15_DepthInRange ==
    err = None =>
        /\ root # Panic
        /\ \A e \in BranchesBelow(root, <<>>) :
               /\ e.node.depth = Len(e.path)
               /\ e.node.depth \in 0..(StemLen - 1)
               /\ \A i \in DOMAIN e.node.children :
                      e.node.children[i].type \in {"Branch", "Leaf"}
        /\ \A stem \in DeepStems, e \in LeafSlots(root, <<>>) :
               (/\ e.path = SubSeq(stem, 1, Len(e.path))
                /\ e.index = stem[Len(e.path) + 1]
                /\ e.leaf.stem # stem) =>
                   /\ Len(e.path) + 1 \in 0..(StemLen - 1)
                   /\ BranchNew(Len(e.path) + 1) # Panic

\* two stems that differ in their last byte only are stored: their leaves
\* are the children of a branch at depth 30, made by a split through 30 levels
C15_Witness ==
    /\ err = None
    /\ \E b \in Branches(root) :
           /\ b.depth = StemLen - 1
           /\ Cardinality(DOMAIN b.children) = 2
    /\ Cardinality(BranchPaths(root)) = StemLen

---------------------------------------------------------------------------
(* GenesisConfig (portal-bridge/src/types/genesis.rs).  An Address is the  *)
(* natural number its 20 bytes spell; a U256 is a natural number; Bytes is *)
(* a sequence of bytes.  A TrieValue is written here by its 32 bytes.  A   *)
(* HashMap is a function, iterated in an order the caller of an operator   *)
(* supplies; the BTreeMap of stems is a function, iterated in key order.   *)

\* a Result
Ok(x) == [ok |-> TRUE, value |-> x]
Err(e) == [ok |-> FALSE, error |-> e]

\* the sequences that enumerate a set, each element once
IterationOrders(S) ==
    {order \in [1..Cardinality(S) -> S] :
        \A i, j \in 1..Cardinality(S) : i # j => order[i] # order[j]}

Bytes32(lead) == [i \in 1..32 |-> IF i <= Len(lead) THEN lead[i] ELSE 0]

\* little-endian bytes of a natural number, without the zero bytes at the end
RECURSIVE LeBytes(_)
LeBytes(n) == IF n = 0 THEN <<>> ELSE <<n % 256>> \o LeBytes(n \div 256)

\* TrieValue::from(U256)
U256ToTrieValue(n) == Bytes32(LeBytes(n))

\* keccak256, as a function of the bytes that tells apart the inputs used
RECURSIVE KeccakFold(_, _)
KeccakFold(bytes, acc) ==
    IF bytes = <<>> THEN acc
    ELSE KeccakFold(Tail(bytes), (acc * 31 + Head(bytes) + 1) % 251)

keccak256(bytes) == Bytes32(<<197, KeccakFold(bytes, 7), Len(bytes) % 256>>)

(* AccountStorageLayout (verkle-core/src/storage.rs): the keys of an       *)
(* account, the header at suffixes 0..4 (version, balance, nonce, code    *)
(* hash, code size).  The stem of (address, tree index) is a hash; the tree index   *)
(* is written <<hi, lo>>, hi = 1 for the main storage, whose offset 256^31 *)
(* lies beyond every header and code position.                             *)
HEADER_STORAGE_OFFSET == 64
CODE_OFFSET == 128
CODE_CHUNK_LEN == 31

LayoutStem(address, tree_hi, tree_lo) ==
    MkStem(<<(address * 157 + tree_hi * 101 + tree_lo * 59) % 256,
             address, tree_hi, tree_lo>>)

version_key(address) == MkKey(LayoutStem(address, 0, 0), 0)
balance_key(address) == MkKey(LayoutStem(address, 0, 0), 1)
nonce_key(address) == MkKey(LayoutStem(address, 0, 0), 2)
code_hash_key(address) == MkKey(LayoutStem(address, 0, 0), 3)
code_size_key(address) == MkKey(LayoutStem(address, 0, 0), 4)

storage_slot_key(address, slot) ==
    IF slot < CODE_OFFSET - HEADER_STORAGE_OFFSET
    THEN MkKey(LayoutStem(address, 0, 0), HEADER_STORAGE_OFFSET + slot)
    ELSE MkKey(LayoutStem(address, 1, slot \div VERKLE_NODE_WIDTH),
               slot % VERKLE_NODE_WIDTH)

code_chunk_key(address, chunk_id) ==
    MkKey(LayoutStem(address, 0, (CODE_OFFSET + chunk_id) \div VERKLE_NODE_WIDTH),
          (CODE_OFFSET + chunk_id) % VERKLE_NODE_WIDTH)

\* number of bytes of data that follow the opcode: 1..32 for PUSH1 (96)
\* to PUSH32 (127)
PushDataLen(opcode) == IF opcode >= 96 /\ opcode <= 127 THEN opcode - 95 ELSE 0

\* the position (0-based) of the first opcode at or after target, scanning
\* the opcodes from pos
RECURSIVE NextOpcodeFrom(_, _, _)
NextOpcodeFrom(code, pos, target) ==
    IF pos >= target \/ pos >= Len(code) THEN pos
    ELSE NextOpcodeFrom(code, pos + 1 + PushDataLen(code[pos + 1]), target)

NumChunks(code) == (Len(code) + CODE_CHUNK_LEN - 1) \div CODE_CHUNK_LEN

\* chunk chunk_id of the code: the number of its leading bytes that are data
\* of a PUSH of an earlier chunk, then its 31 bytes, zeros after the end
CodeChunk(code, chunk_id) ==
    LET start == chunk_id * CODE_CHUNK_LEN
        opcode_pos == NextOpcodeFrom(code, 0, start)
        leading == IF opcode_pos - start > CODE_CHUNK_LEN THEN CODE_CHUNK_LEN
                   ELSE IF opcode_pos > start THEN opcode_pos - start ELSE 0
    IN  Bytes32(<<leading>> \o SubSeq(code, start + 1,
                                      IF start + CODE_CHUNK_LEN < Len(code)
                                      THEN start + CODE_CHUNK_LEN ELSE Len(code)))

chunkify_code(address, code) ==
    [k \in 1..NumChunks(code) |->
        <<code_chunk_key(address, k - 1), CodeChunk(code, k - 1)>>]

(* serde_json::from_reader::<GenesisConfig>.  A JSON document is           *)
(* [keys, alloc]: the keys of its top-level object and, in the order of    *)
(* the file, the <<address, object>> members of the value of "alloc"; an   *)
(* account object is the function from its keys to their values.           *)

AccountAllocFields == {"balance", "nonce", "code", "storage"}

\* AccountAlloc with #[serde(deny_unknown_fields)]: balance is required,
\* an Option field that is absent is None
DeserializeAccountAlloc(object) ==
    IF ~ (DOMAIN object \subseteq AccountAllocFields) THEN Err("unknown field")
    ELSE IF "balance" \notin DOMAIN object THEN Err("missing field")
    ELSE Ok([balance |-> object.balance,
             nonce |-> IF "nonce" \in DOMAIN object THEN Some(object.nonce) ELSE None,
             code |-> IF "code" \in DOMAIN object THEN Some(object.code) ELSE None,
             storage |-> IF "storage" \in DOMAIN object THEN Some(object.storage)
                         ELSE None])

\* HashMap<Address, AccountAlloc>: a member with the address of an earlier
\* one replaces it
DeserializeAlloc(members) ==
    IF \E i \in DOMAIN members : ~ DeserializeAccountAlloc(members[i][2]).ok
    THEN Err(DeserializeAccountAlloc(
                 members[Min({i \in DOMAIN members :
                                  ~ DeserializeAccountAlloc(members[i][2]).ok})][2]).error)
    ELSE Ok([address \in {members[i][1] : i \in DOMAIN members} |->
                DeserializeAccountAlloc(
                    members[Max({i \in DOMAIN members : members[i][1] = address})][2]).value])

\* GenesisConfig, derived without deny_unknown_fields: the keys other than
\* alloc are skipped
DeserializeGenesisConfig(document) ==
    IF "alloc" \notin document.keys THEN Err("missing field")
    ELSE IF ~ DeserializeAlloc(document.alloc).ok THEN DeserializeAlloc(document.alloc)
    ELSE Ok([alloc |-> DeserializeAlloc(document.alloc).value])

(* generate_state_diff *)

\* the closure insert_state_diff, on the BTreeMap state_diffs
insert_state_diff(state_diffs, key, value) ==
    LET suffix_state_diff == [suffix |-> key_suffix(key),
                              current_value |-> None,
                              new_value |-> Some(value)]
        stem == key_stem(key)
    IN  IF stem \in DOMAIN state_diffs
        THEN [state_diffs EXCEPT ![stem].suffix_diffs = Append(@, suffix_state_diff)]
        ELSE [s \in DOMAIN state_diffs \cup {stem} |->
                 IF s = stem THEN [stem |-> stem, suffix_diffs |-> <<suffix_state_diff>>]
                 ELSE state_diffs[s]]

\* the loop body that writes a code size for every account
AccountWrites_CodeSizeAlways(address, account_alloc, storage_order) ==
    <<<<version_key(address), U256ToTrieValue(0)>>,
      <<balance_key(address), U256ToTrieValue(account_alloc.balance)>>,
      <<nonce_key(address),
        U256ToTrieValue(IF IsSome(account_alloc.nonce)
                        THEN Unwrap(account_alloc.nonce) ELSE 0)>>>>
    \o (IF account_alloc.code = None
        THEN <<<<code_hash_key(address), keccak256(<<>>)>>,
               <<code_size_key(address), U256ToTrieValue(0)>>>>
        ELSE <<<<code_hash_key(address), keccak256(Unwrap(account_alloc.code))>>,
               <<code_size_key(address),
                 U256ToTrieValue(Len(Unwrap(account_alloc.code)))>>>>
             \o chunkify_code(address, Unwrap(account_alloc.code)))
    \o (IF account_alloc.storage = None THEN <<>>
        ELSE [i \in 1..Len(storage_order) |->
                 <<storage_slot_key(address, storage_order[i]),
                   Unwrap(account_alloc.storage)[storage_order[i]]>>])

\* the calls of insert_state_diff of one account, in order; storage_order
\* is the iteration order of its storage map
AccountWrites(address, account_alloc, storage_order) ==
    <<<<version_key(address), U256ToTrieValue(0)>>,
      <<balance_key(address), U256ToTrieValue(account_alloc.balance)>>,
      <<nonce_key(address),
        U256ToTrieValue(IF IsSome(account_alloc.nonce)
                        THEN Unwrap(account_alloc.nonce) ELSE 0)>>>>
    \o (IF account_alloc.code = None
        THEN <<<<code_hash_key(address), keccak256(<<>>)>>>>
        ELSE <<<<code_hash_key(address), keccak256(Unwrap(account_alloc.code))>>,
               <<code_size_key(address),
                 U256ToTrieValue(Len(Unwrap(account_alloc.code)))>>>>
             \o chunkify_code(address, Unwrap(account_alloc.code)))
    \o (IF account_alloc.storage = None THEN <<>>
        ELSE [i \in 1..Len(storage_order) |->
                 <<storage_slot_key(address, storage_order[i]),
                   Unwrap(account_alloc.storage)[storage_order[i]]>>])

\* the calls of insert_state_diff of the whole loop; alloc_order is the
\* iteration order of alloc, storage_orders[address] that of its storage
RECURSIVE EmittedWrites(_, _, _)
EmittedWrites(config, alloc_order, storage_orders) ==
    IF alloc_order = <<>> THEN <<>>
    ELSE AccountWrites(Head(alloc_order), config.alloc[Head(alloc_order)],
                       storage_orders[Head(alloc_order)])
         \o EmittedWrites(config, Tail(alloc_order), storage_orders)

RECURSIVE InsertAll(_, _)
InsertAll(state_diffs, emitted) ==
    IF emitted = <<>> THEN state_diffs
    ELSE InsertAll(insert_state_diff(state_diffs, Head(emitted)[1], Head(emitted)[2]),
                   Tail(emitted))

\* Ord of TriePathWrapper: by length, then by bytes
TriePathLess(a, b) == Len(a) < Len(b) \/ (Len(a) = Len(b) /\ SeqLess(a, b))

\* the keys of a BTreeMap in its order; stems, all of one length, come in
\* byte order
RECURSIVE SortedPaths(_)
SortedPaths(paths) ==
    IF paths = {} THEN <<>>
    ELSE LET first == CHOOSE p \in paths : \A q \in paths \ {p} : TriePathLess(p, q)
         IN  <<first>> \o SortedPaths(paths \ {first})

\* the values taken from the last key to the first
into_values_Reversed(state_diffs) ==
    [i \in 1..Cardinality(DOMAIN state_diffs) |->
        state_diffs[SortedPaths(DOMAIN state_diffs)[Cardinality(DOMAIN state_diffs) + 1 - i]]]

\* BTreeMap::into_values().collect()
into_values(state_diffs) ==
    [i \in 1..Cardinality(DOMAIN state_diffs) |->
        state_diffs[SortedPaths(DOMAIN state_diffs)[i]]]

generate_state_diff(config, alloc_order, storage_orders) ==
    into_values(InsertAll(<<>>, EmittedWrites(config, alloc_order, storage_orders)))

\* the iteration orders the maps of a GenesisConfig can have
AllocOrders(config) == IterationOrders(DOMAIN config.alloc)
StorageSlots(account_alloc) ==
    IF account_alloc.storage = None THEN {} ELSE DOMAIN Unwrap(account_alloc.storage)
StorageOrders(config) ==
    {orders \in [DOMAIN config.alloc ->
                    UNION {IterationOrders(StorageSlots(config.alloc[a])) :
                               a \in DOMAIN config.alloc}] :
        \A a \in DOMAIN config.alloc :
            orders[a] \in IterationOrders(StorageSlots(config.alloc[a]))}

(* Genesis files *)

GenesisAddresses == {1, 2}
\* PUSH1 0 PUSH1 0
CodeFourBytes == <<96, 0, 96, 0>>
\* 30 STOP, then a PUSH1 whose byte of data starts the second chunk
CodeTwoChunks == [i \in 1..32 |-> IF i = 31 THEN 96 ELSE IF i = 32 THEN 5 ELSE 0]

AccountObjects ==
    {[balance |-> 5],
     [balance |-> 0, nonce |-> 7],
     [balance |-> 1, code |-> CodeFourBytes],
     [balance |-> 1, code |-> CodeTwoChunks],
     [balance |-> 300, code |-> <<>>],
     [balance |-> 2, storage |-> [slot \in {0, 1} |->
                                     IF slot = 0 THEN Bytes32(<<17>>)
                                     ELSE Bytes32(<<0, 34>>)]],
     [balance |-> 2, nonce |-> 1, code |-> CodeFourBytes,
      storage |-> [slot \in {1, 64} |-> Bytes32(<<17>>)]],
     [balance |-> 1, extra |-> 0],
     [nonce |-> 1]}

GenesisDocuments ==
    [keys : {{"alloc"}, {"alloc", "config"}, {"config"}},
     alloc : {<<>>} \cup {<<m>> : m \in GenesisAddresses \X AccountObjects}
             \cup {<<m, n>> : m \in GenesisAddresses \X AccountObjects,
                              n \in GenesisAddresses \X AccountObjects}]

\* read_genesis_from_file: the file is read once, at start
ReadGenesisCall(document) ==
    /\ ret.op = "none"
    /\ genesis_config = None
    /\ \E result \in {DeserializeGenesisConfig(document)} :
           /\ genesis_config' = IF result.ok THEN Some(result.value) ELSE None
           /\ ret' = [op |-> "read_genesis", document |-> document, result |-> result]
    /\ UNCHANGED <<leaf, nsets, root, nops, err, written, gossip, fragment_node, fetcher>>

\* generate_state_diff on the GenesisConfig read, run twice; the maps may
\* iterate in another order in the second run
GenerateStateDiffCall(alloc_order, storage_orders, alloc_order2, storage_orders2) ==
    /\ genesis_config # None
    /\ ret' = [op |-> "generate_state_diff",
               emitted |-> EmittedWrites(Unwrap(genesis_config), alloc_order,
                                         storage_orders),
               state_diff |-> generate_state_diff(Unwrap(genesis_config), alloc_order,
                                                  storage_orders),
               rerun |-> generate_state_diff(Unwrap(genesis_config), alloc_order2,
                                             storage_orders2)]
    /\ UNCHANGED <<leaf, nsets, root, nops, err, written, genesis_config, gossip,
                   fragment_node, fetcher>>

NextGenesis ==
    \/ \E document \in GenesisDocuments : ReadGenesisCall(document)
    \/ /\ genesis_config # None
       /\ \E alloc_order \in AllocOrders(Unwrap(genesis_config)),
             alloc_order2 \in AllocOrders(Unwrap(genesis_config)),
             storage_orders \in StorageOrders(Unwrap(genesis_config)),
             storage_orders2 \in StorageOrders(Unwrap(genesis_config)) :
              GenerateStateDiffCall(alloc_order, storage_orders,
                                    alloc_order2, storage_orders2)

\* the genesis file read and expanded to a StateDiff
SpecGenesis == Init /\ [][NextGenesis]_vars

---------------------------------------------------------------------------
(* Claims about the genesis file and generate_state_diff *)

\* C11: generate_state_diff is deterministic: for one GenesisConfig every
\* run returns the identical ordered list, in the order of the StemStateDiffs
\* and in the order of the suffix_diffs inside each, whatever the iteration
\* order of the alloc map and of the storage maps.
C11_Deterministic ==
    ret.op = "generate_state_diff" => ret.state_diff = ret.rerun

\* the number of entries of the StateDiff
RECURSIVE SuffixDiffsTotal(_)
SuffixDiffsTotal(state_diff) ==
    IF state_diff = <<>> THEN 0
    ELSE Len(Head(state_diff).suffix_diffs) + SuffixDiffsTotal(Tail(state_diff))

\* the number of entries of the StateDiff with the key
EntryCount(state_diff, key) ==
    Cardinality({<<i, j>> \in (DOMAIN state_diff) \X (1..SuffixDiffsTotal(state_diff)) :
                    /\ state_diff[i].stem = key_stem(key)
                    /\ j \in DOMAIN state_diff[i].suffix_diffs
                    /\ state_diff[i].suffix_diffs[j].suffix = key_suffix(key)})

\* the StateDiff has one entry with the key, and it writes the value to an
\* absent one
HasWrite(state_diff, key, value) ==
    /\ EntryCount(state_diff, key) = 1
    /\ \E i \in DOMAIN state_diff :
           /\ state_diff[i].stem = key_stem(key)
           /\ \E j \in DOMAIN state_diff[i].suffix_diffs :
                  state_diff[i].suffix_diffs[j] =
                      [suffix |-> key_suffix(key),
                       current_value |-> None,
                       new_value |-> Some(value)]

\* the number of writes the account calls for
WritesOfAccount(account_alloc) ==
    3 + (IF account_alloc.code = None THEN 1
         ELSE 2 + (Len(Unwrap(account_alloc.code)) + 30) \div 31)
      + Cardinality(StorageSlots(account_alloc))

RECURSIVE WritesOfAccounts(_, _)
WritesOfAccounts(config, addresses) ==
    IF addresses = {} THEN 0
    ELSE LET address == CHOOSE a \in addresses : TRUE
         IN  WritesOfAccount(config.alloc[address])
             + WritesOfAccounts(config, addresses \ {address})

\* C12: for every account of the allocation generate_state_diff emits
\* exactly these writes, each with current_value None and new_value Some:
\* version 0, the balance, the nonce or 0; without code only the code hash,
\* keccak256 of the empty input; with code its hash, its size and one entry
\* per chunk of chunkify_code (one chunk for code of 4 bytes); and one entry
\* per storage slot.
C12_AccountWrites ==
    ret.op = "generate_state_diff" =>
        LET config == Unwrap(genesis_config)
            state_diff == ret.state_diff
        IN  /\ \A address \in DOMAIN config.alloc :
                   LET account_alloc == config.alloc[address]
                       code == Unwrap(account_alloc.code)
                   IN  /\ HasWrite(state_diff, version_key(address), Bytes32(<<>>))
                       /\ HasWrite(state_diff, balance_key(address),
                                   U256ToTrieValue(account_alloc.balance))
                       /\ HasWrite(state_diff, nonce_key(address),
                                   IF account_alloc.nonce = None THEN Bytes32(<<>>)
                                   ELSE U256ToTrieValue(Unwrap(account_alloc.nonce)))
                       /\ account_alloc.code = None =>
                              /\ HasWrite(state_diff, code_hash_key(address),
                                          keccak256(<<>>))
                              /\ EntryCount(state_diff, code_size_key(address)) = 0
                              /\ \A chunk_id \in 0..1 :
                                     EntryCount(state_diff,
                                                code_chunk_key(address, chunk_id)) = 0
                       /\ account_alloc.code # None =>
                              /\ HasWrite(state_diff, code_hash_key(address),
                                          keccak256(code))
                              /\ HasWrite(state_diff, code_size_key(address),
                                          U256ToTrieValue(Len(code)))
                              /\ \A k \in DOMAIN chunkify_code(address, code) :
                                     HasWrite(state_diff, chunkify_code(address, code)[k][1],
                                              chunkify_code(address, code)[k][2])
                              /\ Len(code) = 4 =>
                                     /\ Len(chunkify_code(address, code)) = 1
                                     /\ HasWrite(state_diff, code_chunk_key(address, 0),
                                                 Bytes32(<<0>> \o code))
                                     /\ EntryCount(state_diff,
                                                   code_chunk_key(address, 1)) = 0
                       /\ \A slot \in StorageSlots(account_alloc) :
                              HasWrite(state_diff, storage_slot_key(address, slot),
                                       Unwrap(account_alloc.storage)[slot])
            /\ SuffixDiffsTotal(state_diff) = WritesOfAccounts(config, DOMAIN config.alloc)

\* the StateDiff of an account with code of 4 bytes and storage and of an
\* account without code
C12_Witness ==
    /\ ret.op = "generate_state_diff"
    /\ \E a1, a2 \in DOMAIN Unwrap(genesis_config).alloc :
           /\ Unwrap(genesis_config).alloc[a1].code = Some(CodeFourBytes)
           /\ Unwrap(genesis_config).alloc[a1].storage # None
           /\ Unwrap(genesis_config).alloc[a2].code = None
           /\ Unwrap(genesis_config).alloc[a2].nonce = None
    /\ SuffixDiffsTotal(ret.state_diff) = 12

\* C13: the list generate_state_diff returns has its StemStateDiffs in
\* strictly increasing byte order of stem: each stem once, its StemStateDiff
\* holding every emitted write whose key has that stem, with the suffix the
\* last byte of the key.
C13_StemsIncreasing ==
    ret.op = "generate_state_diff" =>
        LET state_diff == ret.state_diff
            emitted == ret.emitted
        IN  /\ \A i, j \in DOMAIN state_diff :
                   i < j => SeqLess(state_diff[i].stem, state_diff[j].stem)
            /\ \A k \in DOMAIN emitted :
                   \E i \in DOMAIN state_diff : state_diff[i].stem = key_stem(emitted[k][1])
            /\ \A i \in DOMAIN state_diff :
                   /\ Len(state_diff[i].suffix_diffs) =
                          Cardinality({k \in DOMAIN emitted :
                                          key_stem(emitted[k][1]) = state_diff[i].stem})
                   /\ \A k \in DOMAIN emitted :
                          key_stem(emitted[k][1]) = state_diff[i].stem =>
                              \E j \in DOMAIN state_diff[i].suffix_diffs :
                                  state_diff[i].suffix_diffs[j] =
                                      [suffix |-> emitted[k][1][StemLen + 1],
                                       current_value |-> None,
                                       new_value |-> Some(emitted[k][2])]

\* a StateDiff of four stems whose first emitted write is not of the least
\* stem, one of its stems holding the header and a storage slot
C13_Witness ==
    /\ ret.op = "generate_state_diff"
    /\ Len(ret.state_diff) = 4
    /\ key_stem(ret.emitted[1][1]) # ret.state_diff[1].stem
    /\ \E i \in DOMAIN ret.state_diff : Len(ret.state_diff[i].suffix_diffs) > 6

\* C18: deserialising a genesis JSON rejects unknown fields: it fails when
\* the top-level object has a key other than alloc or an account has a key
\* other than balance, nonce, code, storage; a file with known fields only
\* gives an alloc map with one entry per address.
C18_UnknownFieldsRejected ==
    ret.op = "read_genesis" =>
        LET document == ret.document
            unknown_key == ~ (document.keys \subseteq {"alloc"})
            unknown_field == \E i \in DOMAIN document.alloc :
                                 ~ (DOMAIN document.alloc[i][2] \subseteq AccountAllocFields)
            complete == /\ "alloc" \in document.keys
                        /\ \A i \in DOMAIN document.alloc :
                               "balance" \in DOMAIN document.alloc[i][2]
        IN  /\ (unknown_key \/ unknown_field) => ~ ret.result.ok
            /\ (~ unknown_key /\ ~ unknown_field /\ complete) =>
                   /\ ret.result.ok
                   /\ DOMAIN ret.result.value.alloc =
                          {document.alloc[i][1] : i \in DOMAIN document.alloc}

---------------------------------------------------------------------------
(* StemStateDiff (portal-verkle/src/types/witness.rs).  A SuffixStateDiff  *)
(* is [suffix, current_value, new_value], a StemStateDiff [stem,           *)
(* suffix_diffs]; the TrieValues of a diff applied to the trie are written *)
(* as the trie holds them, <<lo, hi>>.                                     *)

\* a map in which the first pair of a suffix stays
CollectedWrites_FirstStays(suffix_diffs) ==
    [suffix \in {suffix_diffs[i].suffix :
                    i \in {j \in DOMAIN suffix_diffs : IsSome(suffix_diffs[j].new_value)}} |->
        Unwrap(suffix_diffs[Min({i \in DOMAIN suffix_diffs :
                                    /\ IsSome(suffix_diffs[i].new_value)
                                    /\ suffix_diffs[i].suffix = suffix})].new_value)]

\* the HashMap collected from the (suffix, new value) pairs: the last pair
\* of a suffix stays
CollectedWrites(suffix_diffs) ==
    [suffix \in {suffix_diffs[i].suffix :
                    i \in {j \in DOMAIN suffix_diffs : IsSome(suffix_diffs[j].new_value)}} |->
        Unwrap(suffix_diffs[Max({i \in DOMAIN suffix_diffs :
                                    /\ IsSome(suffix_diffs[i].new_value)
                                    /\ suffix_diffs[i].suffix = suffix})].new_value)]

\* StemStateDiff::into_stem_state_write; order is the iteration order of the
\* HashMap writes.  No write carries an expected old value.
into_stem_state_write(stem_state_diff, order) ==
    LET writes == CollectedWrites(stem_state_diff.suffix_diffs)
    IN  IF DOMAIN writes = {} THEN None
        ELSE Some([stem |-> stem_state_diff.stem,
                   writes |-> [i \in DOMAIN order |->
                                  Write(order[i], None, writes[order[i]])]])

\* a suffix read or written, its current value given as absent or as ValueLo
SuffixStateDiffs ==
    [suffix : {0, 1},
     current_value : {None, Some(ValueLo)},
     new_value : {None, Some(ValueHi)}]

\* the diffs of one suffix, and those that write both suffixes
StemStateDiffs ==
    [stem : {StemA, StemB},
     suffix_diffs : {<<d>> : d \in SuffixStateDiffs}
                    \cup {<<d, e>> : d \in {x \in SuffixStateDiffs :
                                                x.suffix = 0 /\ IsSome(x.new_value)},
                                     e \in {x \in SuffixStateDiffs :
                                                x.suffix = 1 /\ IsSome(x.new_value)}}]

DiffKeys == {MkKey(stem, 0) : stem \in {StemA, StemB}}

\* one StemStateDiff of a block applied to the trie: into_stem_state_write,
\* then BranchNode::update on the root if there is something to write
ApplyStateDiffCall(stem_state_diff, order) ==
    /\ nops < MaxOps
    /\ err = None
    /\ root # Panic
    /\ \E state_write \in {into_stem_state_write(stem_state_diff, order)} :
           \E r \in {IF state_write = None
                     THEN [node |-> root, path |-> None, err |-> None]
                     ELSE BranchUpdate(root, Unwrap(state_write))} :
               /\ root' = r.node
               /\ err' = r.err
               /\ written' = IF IsSome(r.err) \/ state_write = None THEN written
                             ELSE ApplyWrites(written, stem_state_diff.stem,
                                              Unwrap(state_write).writes)
               /\ ret' = [op |-> "state_diff", state_diff |-> stem_state_diff,
                          state_write |-> state_write, before |-> root]
    /\ nops' = nops + 1
    /\ UNCHANGED <<leaf, nsets, genesis_config, gossip, fragment_node, fetcher>>

NextDiff ==
    \/ \E key \in DiffKeys, value \in TrieValues : InsertCall(key, value)
    \/ \E stem_state_diff \in StemStateDiffs :
           \E order \in IterationOrders(
                            DOMAIN CollectedWrites(stem_state_diff.suffix_diffs)) :
               ApplyStateDiffCall(stem_state_diff, order)

\* the trie under insert and under the StemStateDiffs of a block
SpecDiff == Init /\ [][NextDiff]_vars

\* the written suffixes of the StemStateDiff whose current_value is not the
\* value the trie holds
Disagreeing(trie, stem_state_diff) ==
    {i \in DOMAIN stem_state_diff.suffix_diffs :
        /\ IsSome(stem_state_diff.suffix_diffs[i].new_value)
        /\ stem_state_diff.suffix_diffs[i].current_value #
               BranchGet(trie, MkKey(stem_state_diff.stem,
                                     stem_state_diff.suffix_diffs[i].suffix))}

\* C17: applying a stem write checks the expected old value of each written
\* suffix against the value stored in the leaf and fails with WrongOldValue
\* on a mismatch, so a state diff whose current_value disagrees with the trie
\* is rejected and not applied.
C17_WrongOldValueRejected ==
    (ret.op = "state_diff" /\ Disagreeing(ret.before, ret.state_diff) # {}) =>
        /\ err = Some("WrongOldValue")
        /\ root = ret.before

---------------------------------------------------------------------------
(* Gossiper (portal-verkle/src/bin/gossip_to_portal.rs).  gossip is        *)
(* [pc, slot, queue, sent, at_start]: where main stands ("idle" between    *)
(* two slots, "gossip" inside gossip_state_writes at an await, "failed"    *)
(* after an error, "cancelled" after the task was dropped, "done" after    *)
(* main has returned Ok), the slot to come (0: the genesis), the nodes     *)
(* still to gossip, the number of nodes gossiped, and the trie as          *)
(* gossip_state_writes found it; gossiped is the set of content keys the   *)
(* portal client has accepted.                                             *)

\* VerkleTrie::traverse_to_leaf: the branch that holds the leaf of the stem,
\* its path and the index of the leaf
traverse_to_leaf(trie, stem) ==
    IF \E e \in LeafSlots(trie, <<>>) : e.leaf.stem = stem
    THEN Ok(CHOOSE e \in LeafSlots(trie, <<>>) : e.leaf.stem = stem)
    ELSE Err("NodeNotFound")

\* an entry with the fragments of the path children only
BranchToGossip_PathChildren(trie, trie_path, stems, new_branch_nodes) ==
    [kind |-> "branch",
     path |-> trie_path,
     commitment |-> NodeCommitment(NodeAt(trie, trie_path)),
     fragment_indices |->
         {stem[Len(trie_path) + 1] \div PORTAL_NETWORK_NODE_WIDTH :
             stem \in {t \in stems : SubSeq(t, 1, Len(trie_path)) = trie_path}}]

\* the entry of branches_to_gossip of a path
BranchToGossip(trie, trie_path, stems, new_branch_nodes) ==
    LET branch == NodeAt(trie, trie_path)
    IN  [kind |-> "branch",
         path |-> trie_path,
         commitment |-> NodeCommitment(branch),
         fragment_indices |->
             (IF trie_path \in new_branch_nodes
              THEN {fragment_index \in 0..(PORTAL_NETWORK_NODE_WIDTH - 1) :
                       get_fragment_commitment(branch, fragment_index) # None}
              ELSE {})
             \cup {stem[Len(trie_path) + 1] \div PORTAL_NETWORK_NODE_WIDTH :
                      stem \in {t \in stems : SubSeq(t, 1, Len(trie_path)) = trie_path}}]

\* the entry of leaves_to_gossip of a stem
LeafToGossip(trie, stem, state_writes) ==
    [kind |-> "leaf",
     stem |-> stem,
     commitment |-> NodeCommitment(traverse_to_leaf(trie, stem).value.leaf),
     fragment_indices |->
         UNION {{state_writes[i].writes[j].suffix \div PORTAL_NETWORK_NODE_WIDTH :
                    j \in DOMAIN state_writes[i].writes} :
                   i \in {k \in DOMAIN state_writes : state_writes[k].stem = stem}}]

\* the nodes to gossip with the leaves before the branches
NodesToGossip_LeavesFirst(trie, state_writes, new_branch_nodes) ==
    LET stems == {state_writes[i].stem : i \in DOMAIN state_writes}
        branches == SortedPaths({p \in BranchPaths(trie) :
                                    \E stem \in stems : p = SubSeq(stem, 1, Len(p))})
        leaves == SortedPaths(stems)
    IN  Ok([i \in 1..Len(leaves) |-> LeafToGossip(trie, leaves[i], state_writes)]
           \o [i \in 1..Len(branches) |->
                  BranchToGossip(trie, branches[i], stems, new_branch_nodes)])

\* the loop over the state writes and the two BTreeMaps it fills: the nodes
\* to gossip, branches by path, then leaves by stem
NodesToGossip(trie, state_writes, new_branch_nodes) ==
    LET stems == {state_writes[i].stem : i \in DOMAIN state_writes}
        branch_paths == {p \in BranchPaths(trie) :
                            \E stem \in stems :
                                /\ traverse_to_leaf(trie, stem).ok
                                /\ Len(p) <= Len(traverse_to_leaf(trie, stem).value.path)
                                /\ p = SubSeq(stem, 1, Len(p))}
        branches == SortedPaths(branch_paths)
        leaves == SortedPaths(stems)
    IN  IF \E stem \in stems : ~ traverse_to_leaf(trie, stem).ok
        THEN Err("NodeNotFound")
        ELSE Ok([i \in 1..Len(branches) |->
                    BranchToGossip(trie, branches[i], stems, new_branch_nodes)]
                \o [i \in 1..Len(leaves) |->
                       LeafToGossip(trie, leaves[i], state_writes)])

\* the <<index, scalar>> entries of the values of a leaf at the indices of S
RECURSIVE LeafFragmentEntries(_, _)
LeafFragmentEntries(l, S) ==
    IF S = {} THEN <<>>
    ELSE LET index == Min(S)
             suffix_index == index % (VERKLE_NODE_WIDTH \div 2)
             low_high == split(Unwrap(l.children[index]))
         IN  << <<2 * suffix_index, low_high[1]>>,
                <<2 * suffix_index + 1, low_high[2]>> >>
             \o LeafFragmentEntries(l, S \ {index})

\* PortalLeafNodeBuilder::fragment_commitment: the suffix commitment of the
\* values of one fragment
leaf_fragment_commitment(l, fragment_index) ==
    commit_sparse(LeafFragmentEntries(l,
        {index \in DOMAIN l.children :
            /\ index \div PORTAL_NETWORK_NODE_WIDTH = fragment_index
            /\ IsSome(l.children[index])}))

\* PortalBranchNodeBuilder::fragment_commitment
branch_fragment_commitment(b, fragment_index) ==
    LET fragment_commitment == get_fragment_commitment(b, fragment_index)
    IN  IF IsSome(fragment_commitment) THEN Unwrap(fragment_commitment) ELSE PointZero

\* gossip_branch_node / gossip_leaf_node: the content keys of the requests
\* for one node to gossip, the bundle and its fragments
ContentKeys(trie, node) ==
    IF node.kind = "branch"
    THEN {[key |-> "Bundle", commitment |-> node.commitment]}
         \cup {[key |-> "BranchFragment",
                commitment |-> branch_fragment_commitment(NodeAt(trie, node.path),
                                                          fragment_index)] :
                  fragment_index \in node.fragment_indices}
    ELSE {[key |-> "Bundle", commitment |-> node.commitment]}
         \cup {[key |-> "LeafFragment",
                stem |-> node.stem,
                commitment |-> leaf_fragment_commitment(
                                   traverse_to_leaf(trie, node.stem).value.leaf,
                                   fragment_index)] :
                  fragment_index \in node.fragment_indices}

\* gossip_state_writes that takes &mut self and hashes the root commitment
gossip_state_writes_Hashing(trie, state_writes, new_branch_nodes) ==
    [trie |-> [trie EXCEPT !.commitment.hash = Some(CommitmentHash(trie.commitment))],
     result |-> NodesToGossip(trie, state_writes, new_branch_nodes)]

\* gossip_state_writes up to its first await: the trie it leaves (it holds
\* &self) and the nodes to gossip
gossip_state_writes(trie, state_writes, new_branch_nodes) ==
    [trie |-> trie,
     result |-> NodesToGossip(trie, state_writes, new_branch_nodes)]

\* VerkleTrie::update of a block's writes: every StemStateWrite in order,
\* the paths of the new branches collected
RECURSIVE TrieUpdate(_, _, _)
TrieUpdate(trie, state_writes, new_branch_nodes) ==
    IF state_writes = <<>> THEN [node |-> trie, paths |-> new_branch_nodes, err |-> None]
    ELSE LET r == BranchUpdate(trie, Head(state_writes))
         IN  IF IsSome(r.err) THEN [node |-> r.node, paths |-> new_branch_nodes, err |-> r.err]
             ELSE TrieUpdate(r.node, Tail(state_writes),
                             new_branch_nodes
                             \cup (IF IsSome(r.path) THEN {Unwrap(r.path)} ELSE {}))

\* the state writes of the genesis, and of the blocks of the slots
GenesisStateWrites == <<[stem |-> StemA, writes |-> <<Write(0, None, ValueHi)>>]>>
BlockStateWrites ==
    {<<[stem |-> StemB, writes |-> <<Write(1, None, ValueLo)>>]>>,
     <<[stem |-> StemA, writes |-> <<Write(0, Some(Some(ValueHi)), ValueLo)>>]>>,
     <<[stem |-> StemA, writes |-> <<Write(0, Some(None), ValueLo)>>]>>,
     <<[stem |-> StemC, writes |-> <<Write(128, None, ValueHi)>>],
       [stem |-> StemB, writes |-> <<Write(0, None, ValueHi), Write(1, None, ValueLo)>>]>>,
     <<[stem |-> MkStem(<<0, 1, 5, 0, 200>>), writes |-> <<Write(0, None, ValueHi)>>]>>,
     <<[stem |-> StemC, writes |-> <<Write(128, None, ValueHi)>>],
       [stem |-> MkStem(<<0, 200, 7>>), writes |-> <<Write(0, None, ValueLo)>>]>>}

\* what gossip becomes when gossip_state_writes has run to its first await
Gossiping(g, trie, r) ==
    IF r.result.ok
    THEN [g EXCEPT !.pc = "gossip", !.queue = r.result.value, !.at_start = Some(trie)]
    ELSE [g EXCEPT !.pc = "failed", !.queue = <<>>, !.at_start = Some(trie)]

\* Gossiper::new: the trie of VerkleEvm::new holds the genesis
InitGossip ==
    /\ leaf = LeafNew(StemA)
    /\ nsets = 0
    /\ root = TrieUpdate(BranchNew(0), GenesisStateWrites, {}).node
    /\ nops = 0
    /\ err = None
    /\ written = ApplyWrites(<<>>, StemA, GenesisStateWrites[1].writes)
    /\ ret = [op |-> "none"]
    /\ genesis_config = None
    /\ gossip = GossiperNew
    /\ fragment_node = [node |-> None, sets |-> <<>>]
    /\ fetcher = FetcherNew

\* gossip_genesis, up to the first await of gossip_state_writes
GossipGenesisCall ==
    /\ gossip.pc = "idle"
    /\ gossip.slot = 0
    /\ \E r \in {gossip_state_writes(root, GenesisStateWrites, {})} :
           /\ root' = r.trie
           /\ gossip' = Gossiping(gossip, root, r)
    /\ ret' = [op |-> "gossip_genesis", before |-> root]
    /\ UNCHANGED <<leaf, nsets, nops, err, written, genesis_config, fragment_node, fetcher>>

\* a gossip_slot that returns the error of the block fetcher
BlockNotFound_Propagates ==
    /\ gossip.pc = "idle"
    /\ gossip.slot \in 1..MaxSlots
    /\ gossip' = [gossip EXCEPT !.pc = "failed"]
    /\ ret' = [op |-> "block_not_found", before |-> root]
    /\ UNCHANGED <<leaf, nsets, root, nops, err, written, genesis_config,
                   fragment_node, fetcher>>

\* gossip_slot when fetch_beacon_block returns an error or no block for the
\* slot
BlockNotFound ==
    /\ gossip.pc = "idle"
    /\ gossip.slot \in 1..MaxSlots
    /\ gossip' = [gossip EXCEPT !.slot = @ + 1]
    /\ ret' = [op |-> "block_not_found", before |-> root]
    /\ UNCHANGED <<leaf, nsets, root, nops, err, written, genesis_config,
                   fragment_node, fetcher>>

\* a gossip_slot that goes on to the next slot when process_block fails
GossipSlotCall_SkipsError(state_writes) ==
    /\ gossip.pc = "idle"
    /\ gossip.slot \in 1..MaxSlots
    /\ \E processed \in {TrieUpdate(root, state_writes, {})} :
           /\ err' = processed.err
           /\ nops' = nops + 1
           /\ root' = processed.node
           /\ gossip' = IF IsSome(processed.err)
                        THEN [gossip EXCEPT !.slot = @ + 1]
                        ELSE Gossiping([gossip EXCEPT !.block_number = @ + 1],
                                       processed.node,
                                       gossip_state_writes(processed.node, state_writes,
                                                           processed.paths))
           /\ ret' = [op |-> "process_block", state_writes |-> state_writes,
                      before |-> root, processed |-> processed.node]
    /\ UNCHANGED <<leaf, nsets, written, genesis_config, fragment_node, fetcher>>

\* gossip_slot with the block fetched: process_block, which makes the block
\* the last processed one when it succeeds, then gossip_state_writes up to
\* its first await
GossipSlotCall(state_writes) ==
    /\ gossip.pc = "idle"
    /\ gossip.slot \in 1..MaxSlots
    /\ \E processed \in {TrieUpdate(root, state_writes, {})} :
           /\ err' = processed.err
           /\ nops' = nops + 1
           /\ IF IsSome(processed.err)
              THEN /\ root' = processed.node
                   /\ gossip' = [gossip EXCEPT !.pc = "failed"]
              ELSE \E r \in {gossip_state_writes(processed.node, state_writes,
                                                 processed.paths)} :
                       /\ root' = r.trie
                       /\ gossip' = Gossiping([gossip EXCEPT !.block_number = @ + 1],
                                              processed.node, r)
           /\ ret' = [op |-> "process_block", state_writes |-> state_writes,
                      before |-> root, processed |-> processed.node]
    /\ UNCHANGED <<leaf, nsets, written, genesis_config, fragment_node, fetcher>>

\* the await of gossip_branch_node / gossip_leaf_node on the first node of
\* the queue ends: every request succeeded, or one failed after the requests
\* of done had succeeded
GossipNodeAwait(succeeded) ==
    /\ gossip.pc = "gossip"
    /\ gossip.queue # <<>>
    /\ \E done \in SUBSET ContentKeys(root, Head(gossip.queue)) :
           /\ succeeded <=> done = ContentKeys(root, Head(gossip.queue))
           /\ gossip' = IF succeeded
                        THEN [gossip EXCEPT !.queue = Tail(@), !.sent = @ + 1,
                                            !.gossiped = @ \cup done]
                        ELSE [gossip EXCEPT !.pc = "failed", !.queue = <<>>,
                                            !.gossiped = @ \cup done]
    /\ ret' = [op |-> "gossip_node", node |-> Head(gossip.queue), before |-> root]
    /\ UNCHANGED <<leaf, nsets, root, nops, err, written, genesis_config,
                   fragment_node, fetcher>>

\* gossip_state_writes returns Ok; main goes on to the next slot
GossipReturn ==
    /\ gossip.pc = "gossip"
    /\ gossip.queue = <<>>
    /\ gossip' = [gossip EXCEPT !.pc = "idle", !.slot = @ + 1]
    /\ ret' = [op |-> "gossip_return", before |-> root]
    /\ UNCHANGED <<leaf, nsets, root, nops, err, written, genesis_config,
                   fragment_node, fetcher>>

\* the task is dropped at an await of gossip_state_writes
CancelTask ==
    /\ gossip.pc = "gossip"
    /\ gossip.queue # <<>>
    /\ gossip' = [gossip EXCEPT !.pc = "cancelled", !.queue = <<>>]
    /\ ret' = [op |-> "cancel", before |-> root]
    /\ UNCHANGED <<leaf, nsets, root, nops, err, written, genesis_config,
                   fragment_node, fetcher>>

\* main returns Ok after the last slot
MainReturn ==
    /\ gossip.pc = "idle"
    /\ gossip.slot = MaxSlots + 1
    /\ gossip' = [gossip EXCEPT !.pc = "done"]
    /\ ret' = [op |-> "main_return", before |-> root]
    /\ UNCHANGED <<leaf, nsets, root, nops, err, written, genesis_config,
                   fragment_node, fetcher>>

NextGossip ==
    \/ GossipGenesisCall
    \/ BlockNotFound
    \/ \E state_writes \in BlockStateWrites : GossipSlotCall(state_writes)
    \/ \E succeeded \in BOOLEAN : GossipNodeAwait(succeeded)
    \/ GossipReturn
    \/ CancelTask
    \/ MainReturn

\* main of gossip_to_portal: the genesis, then the slots 1..MaxSlots
SpecGossip == InitGossip /\ [][NextGossip]_vars

\* C19: gossiping never mutates the trie: from the start of
\* gossip_state_writes until it returns, whether every request succeeds, one
\* fails or the task is cancelled at an await, the trie (children and
\* commitment of every node, the root commitment) is the trie at the start;
\* the trie changes only inside process_block.
C19_GossipKeepsTrie ==
    [][/\ gossip'.pc = "gossip" =>
              /\ gossip'.at_start = Some(root')
              /\ \A i \in DOMAIN gossip'.queue :
                     gossip'.queue[i].kind = "branch" =>
                         gossip'.queue[i].commitment =
                             NodeCommitment(NodeAt(root', gossip'.queue[i].path))
       /\ gossip.pc = "gossip" =>
              /\ root' = root
              /\ gossip.at_start = Some(root')
              /\ NodeCommitment(root') = NodeCommitment(Unwrap(gossip.at_start))
       /\ ret'.op \in {"gossip_genesis", "gossip_node", "gossip_return", "cancel"} =>
              root' = root
       /\ root' # root =>
              /\ ret'.op = "process_block"
              /\ root' = ret'.processed]_vars

\* a request of the second node of a block's gossip has failed, or the task
\* was cancelled there, after the block had split the trie
C19_Witness ==
    /\ gossip.pc \in {"failed", "cancelled"}
    /\ ret.op \in {"gossip_node", "cancel"}
    /\ gossip.slot >= 1
    /\ gossip.sent >= 3
    /\ Cardinality(BranchPaths(root)) >= 3
    /\ gossip.at_start = Some(root)

---------------------------------------------------------------------------
(* Fragments of a branch *)

\* extract_fragment_node that reads the children of the first fragment
extract_fragment_node_FirstFragment(b, fragment_index) ==
    [commitment |-> IF get_fragment_commitment(b, fragment_index) = None THEN PointZero
                    ELSE Unwrap(get_fragment_commitment(b, fragment_index)),
     node |-> [fragment_index |-> fragment_index,
               children |->
                   [fragment_child_index \in 0..(PORTAL_NETWORK_NODE_WIDTH - 1) |->
                       LET commitment == NodeCommitment(
                               ArrayGet(b.children, fragment_child_index, Empty))
                       IN  IF PointIsZero(commitment) THEN None ELSE Some(commitment)]]]

\* extract_fragment_node: (fragment_commitment, BranchFragmentNode)
extract_fragment_node(b, fragment_index) ==
    [commitment |-> IF get_fragment_commitment(b, fragment_index) = None THEN PointZero
                    ELSE Unwrap(get_fragment_commitment(b, fragment_index)),
     node |-> [fragment_index |-> fragment_index,
               children |->
                   [fragment_child_index \in 0..(PORTAL_NETWORK_NODE_WIDTH - 1) |->
                       LET child_index == fragment_index * PORTAL_NETWORK_NODE_WIDTH
                                          + fragment_child_index
                           commitment == NodeCommitment(
                               ArrayGet(b.children, child_index, Empty))
                       IN  IF PointIsZero(commitment) THEN None ELSE Some(commitment)]]]

\* the child indices the loop of get_fragment_commitment reads
FragmentChildren(fragment_index) ==
    {FragmentChildIndex(fragment_index, fragment_child_index) :
        fragment_child_index \in 0..(PORTAL_NETWORK_NODE_WIDTH - 1)}

\* the fragments, of those of a bundle, whose commitment has a term of child
\* index
TermOwners(fragments, index) ==
    {f \in DOMAIN fragments :
        /\ IsSome(fragments[f])
        /\ Coef(Unwrap(fragments[f]), index) # 0}

SetCells(nodes) ==
    {cell \in (DOMAIN nodes) \X (0..(PORTAL_NETWORK_NODE_WIDTH - 1)) :
        IsSome(nodes[cell[1]].node.children[cell[2]])}

\* the commitment put together from the children of the fragment nodes
RECURSIVE FragmentsCommitment(_, _)
FragmentsCommitment(nodes, cells) ==
    IF cells = {} THEN PointZero
    ELSE LET cell == CHOOSE c \in cells : TRUE
         IN  PointAdd(scalar_mul(cell[1] * PORTAL_NETWORK_NODE_WIDTH + cell[2],
                                 map_to_scalar_field(
                                     Unwrap(nodes[cell[1]].node.children[cell[2]]))),
                      FragmentsCommitment(nodes, cells \ {cell}))

---------------------------------------------------------------------------
(* C23: the memoised commitment hash *)

\* C23: in every state and for every branch of the trie, commitment_hash()
\* returns map_to_scalar_field of the commitment point the branch has now: a
\* hash memoised by a read before a += is not returned after it.
C23_HashNeverStale ==
    root # Panic =>
        \A b \in Branches(root) :
            CommitmentHash(b.commitment) = map_to_scalar_field(b.commitment.point)

\* a branch below the root whose hash was memoised before the last call, whose
\* commitment the call has changed, and whose hash is memoised again
C23_Witness ==
    /\ root # Panic
    /\ ret.op \in {"insert", "update"}
    /\ \E p \in BranchPaths(root) \ {<<>>} :
           LET now == NodeAt(root, p)
               was == NodeAt(ret.before, p)
           IN  /\ was.type = "Branch"
               /\ IsSome(was.commitment.hash)
               /\ IsSome(now.commitment.hash)
               /\ now.commitment.point # was.commitment.point


---------------------------------------------------------------------------
(* C24: what has been gossiped of the current trie *)

\* C24: after gossip_genesis and any number of successfully processed and
\* gossiped blocks, the bundle of every branch and of every leaf of the trie
\* and every fragment of them with a non-zero commitment has been gossiped
\* under the content key of its current commitment.
C24_GossipComplete ==
    (gossip.pc = "idle" /\ gossip.slot >= 1) =>
        /\ \A b \in Branches(root) :
               /\ [key |-> "Bundle", commitment |-> NodeCommitment(b)] \in gossip.gossiped
               /\ \A fragment_index \in 0..(PORTAL_NETWORK_NODE_WIDTH - 1) :
                      get_fragment_commitment(b, fragment_index) # None =>
                          [key |-> "BranchFragment",
                           commitment |-> branch_fragment_commitment(b, fragment_index)]
                              \in gossip.gossiped
        /\ \A l \in LeavesBelow(root) :
               /\ [key |-> "Bundle", commitment |-> NodeCommitment(l)] \in gossip.gossiped
               /\ \A fragment_index \in 0..(PORTAL_NETWORK_NODE_WIDTH - 1) :
                      leaf_fragment_commitment(l, fragment_index) # PointZero =>
                          [key |-> "LeafFragment", stem |-> l.stem,
                           commitment |-> leaf_fragment_commitment(l, fragment_index)]
                              \in gossip.gossiped


---------------------------------------------------------------------------
(* C25: the nodes gossip_state_writes gossips for a block *)

\* the state writes and the new branch paths gossip_state_writes was called with
GossipedStateWrites ==
    IF ret.op = "gossip_genesis" THEN GenesisStateWrites ELSE ret.state_writes
GossipedNewBranchNodes ==
    IF ret.op = "gossip_genesis" THEN {}
    ELSE TrieUpdate(ret.before, ret.state_writes, {}).paths

\* C25: for every stem written in a block, exactly one bundle is gossiped for
\* each branch on the path from the root to the stem's leaf and exactly one
\* for the leaf, however many written stems share the node; the fragments of
\* a branch are those that hold the path child of a written stem and, when
\* the branch's path is in new_branch_nodes, every fragment with a non-zero
\* commitment; the fragments of a leaf are those that hold a written suffix.
C25_NodesGossiped ==
    (gossip.pc = "gossip" /\ ret.op \in {"gossip_genesis", "process_block"}) =>
        LET queue == gossip.queue
            state_writes == GossipedStateWrites
            new_branch_nodes == GossipedNewBranchNodes
            stems == {state_writes[i].stem : i \in DOMAIN state_writes}
            slots == LeafSlots(root, <<>>)
            SlotOf(stem) == CHOOSE e \in slots : e.leaf.stem = stem
            Entries(kind) == {i \in DOMAIN queue : queue[i].kind = kind}
        IN  /\ \A stem \in stems :
                   /\ \E e \in slots : e.leaf.stem = stem
                   /\ \A depth \in 0..Len(SlotOf(stem).path) :
                          Cardinality({i \in Entries("branch") :
                                          queue[i].path = SubSeq(stem, 1, depth)}) = 1
                   /\ Cardinality({i \in Entries("leaf") : queue[i].stem = stem}) = 1
            /\ \A i \in Entries("branch") :
                   LET path == queue[i].path
                       branch == NodeAt(root, path)
                       below == {stem \in stems :
                                    /\ Len(path) <= Len(SlotOf(stem).path)
                                    /\ SubSeq(stem, 1, Len(path)) = path}
                   IN  /\ below # {}
                       /\ queue[i].commitment = branch.commitment.point
                       /\ queue[i].fragment_indices =
                              {stem[Len(path) + 1] \div PORTAL_NETWORK_NODE_WIDTH :
                                  stem \in below}
                              \cup (IF path \in new_branch_nodes
                                    THEN {k \div PORTAL_NETWORK_NODE_WIDTH :
                                             k \in {j \in DOMAIN branch.children :
                                                       branch.children[j] # Empty}}
                                    ELSE {})
            /\ \A i \in Entries("leaf") :
                   /\ queue[i].stem \in stems
                   /\ queue[i].commitment = SlotOf(queue[i].stem).leaf.commitment
                   /\ \A fragment_index \in 0..(PORTAL_NETWORK_NODE_WIDTH - 1) :
                          fragment_index \in queue[i].fragment_indices <=>
                              \E k \in DOMAIN state_writes :
                                  /\ state_writes[k].stem = queue[i].stem
                                  /\ \E w \in DOMAIN state_writes[k].writes :
                                         state_writes[k].writes[w].suffix
                                             \div PORTAL_NETWORK_NODE_WIDTH = fragment_index

\* a block of two stems that share three branches, one of them new and with
\* a fragment that holds no path child of a written stem
C25_Witness ==
    /\ gossip.pc = "gossip"
    /\ ret.op = "process_block"
    /\ Len(ret.state_writes) = 2
    /\ \E i \in DOMAIN gossip.queue :
           /\ gossip.queue[i].kind = "branch"
           /\ gossip.queue[i].path \in GossipedNewBranchNodes
           /\ \E fragment_index \in gossip.queue[i].fragment_indices :
                  \A k \in DOMAIN ret.state_writes :
                      ret.state_writes[k].stem[Len(gossip.queue[i].path) + 1]
                          \div PORTAL_NETWORK_NODE_WIDTH # fragment_index
    /\ Cardinality({i \in DOMAIN gossip.queue : gossip.queue[i].kind = "branch"}) = 3
    /\ Cardinality({i \in DOMAIN gossip.queue : gossip.queue[i].kind = "leaf"}) = 2


---------------------------------------------------------------------------
(* C26: the order of the gossip of one block *)

\* a comes before b in byte order: at the first index where they differ
BytesBefore(a, b) ==
    \E k \in 1..Len(a) :
        /\ k <= Len(b)
        /\ a[k] < b[k]
        /\ \A j \in 1..(k - 1) : a[j] = b[j]

\* C26: within one block's gossip the nodes are gossiped one at a time in a
\* fixed order: branches by increasing path length and, for equal length,
\* in byte order, so that every ancestor comes before a deeper branch, then
\* leaves by increasing stem; the requests of a node are made only when all
\* requests of the node before it have succeeded, and a failed request stops
\* the gossip of all later nodes.
C26_GossipOrder ==
    [][/\ gossip'.pc = "gossip" =>
              \A i, j \in DOMAIN gossip'.queue :
                  i < j =>
                      LET a == gossip'.queue[i]
                          b == gossip'.queue[j]
                      IN  /\ a.kind = "leaf" => b.kind = "leaf"
                          /\ (a.kind = "branch" /\ b.kind = "branch") =>
                                 /\ Len(a.path) <= Len(b.path)
                                 /\ Len(a.path) = Len(b.path) => BytesBefore(a.path, b.path)
                          /\ (a.kind = "leaf" /\ b.kind = "leaf") =>
                                 BytesBefore(a.stem, b.stem)
       /\ gossip'.gossiped # gossip.gossiped =>
              /\ gossip.pc = "gossip"
              /\ gossip.queue # <<>>
              /\ gossip'.gossiped \ gossip.gossiped
                     \subseteq ContentKeys(root, Head(gossip.queue))
       /\ (gossip.pc = "gossip" /\ gossip'.pc = "gossip") =>
              /\ gossip'.queue = Tail(gossip.queue)
              /\ ContentKeys(root, Head(gossip.queue)) \subseteq gossip'.gossiped
              /\ root' = root
       /\ (gossip.pc = "gossip" /\ gossip'.pc = "failed") =>
              /\ gossip'.queue = <<>>
              /\ gossip'.slot = gossip.slot
       /\ gossip.pc # "failed"]_vars

\* a block whose gossip holds two branches of one path length, a deeper
\* branch and two leaves
C26_Witness ==
    /\ gossip.pc = "gossip"
    /\ ret.op = "process_block"
    /\ \E i, j \in DOMAIN gossip.queue :
           /\ i < j
           /\ gossip.queue[i].kind = "branch"
           /\ gossip.queue[j].kind = "branch"
           /\ Len(gossip.queue[i].path) = Len(gossip.queue[j].path)
    /\ Cardinality({i \in DOMAIN gossip.queue : gossip.queue[i].kind = "leaf"}) = 2


---------------------------------------------------------------------------
(* C27: main of the gossip driver *)

\* C27: the genesis is gossiped before any slot, then the slots 1..MaxSlots
\* are handled in increasing order, process_block and the gossip of one slot
\* finished before the next slot starts; the first error of the genesis or
\* of a slot ends the run and no later slot is processed; the run ends with
\* success only when every slot has been handled.
C27_MainOrder ==
    [][/\ gossip'.slot \in {gossip.slot, gossip.slot + 1}
       /\ ret'.op = "gossip_genesis" =>
              /\ gossip.pc = "idle"
              /\ gossip.slot = 0
       /\ ret'.op \in {"process_block", "block_not_found"} =>
              /\ gossip.pc = "idle"
              /\ gossip.queue = <<>>
              /\ gossip.slot \in 1..MaxSlots
       /\ gossip'.slot = gossip.slot + 1 =>
              \/ ret'.op = "block_not_found"
              \/ /\ ret'.op = "gossip_return"
                 /\ gossip.pc = "gossip"
                 /\ gossip.queue = <<>>
       /\ IsSome(err') => gossip'.pc = "failed"
       /\ gossip'.pc = "failed" => gossip'.slot = gossip.slot
       /\ gossip.pc \notin {"failed", "done"}
       /\ gossip'.pc = "done" =>
              /\ gossip.pc = "idle"
              /\ gossip.slot = MaxSlots + 1
              /\ err = None]_vars

\* main has returned Ok after two blocks that were processed and gossiped
C27_Witness ==
    /\ gossip.pc = "done"
    /\ gossip.slot = MaxSlots + 1
    /\ nops = MaxSlots
    /\ gossip.sent >= 6


---------------------------------------------------------------------------
(* BranchNode::update with writes that check the old value *)

\* writes of one stem that expect a stored value, or an empty slot after an
\* unchecked write
CheckedStateWrites ==
    [stem : {StemA, StemB},
     writes : {<<Write(0, Some(Some(ValueHi)), ValueLo)>>,
               <<Write(1, None, ValueLo), Write(0, Some(None), ValueHi)>>}]

NextChecked ==
    \/ \E key \in {MkKey(stem, suffix) : stem \in {StemA, StemB}, suffix \in {0, 1}},
          value \in TrieValues : InsertCall(key, value)
    \/ \E state_write \in CheckedStateWrites : UpdateCall(state_write)

\* the trie under insert and under updates that can fail
SpecChecked == Init /\ [][NextChecked]_vars

---------------------------------------------------------------------------
(* BranchFragmentNode (portal-verkle-trie/src/nodes/portal/branch_fragment.rs): *)
(* [parent_index, commitment, children] with children the array of the     *)
(* PORTAL_NETWORK_NODE_WIDTH points of the fragment.  fragment_node is      *)
(* [node, sets]: the node, None before it is created, and the set calls     *)
(* made on it, each <<child_index, child>>.                                 *)

MaxFragmentSets == 3

bases_index(parent_index, child_index) ==
    parent_index * PORTAL_NETWORK_NODE_WIDTH + child_index

\* the <<bases_index, hash>> entries of the children with a non-zero hash at
\* the indices of S, in increasing child_index
RECURSIVE FragmentEntries(_, _, _)
FragmentEntries(parent_index, children, S) ==
    IF S = {} THEN <<>>
    ELSE LET child_index == Min(S)
             child_commitment_hash == map_to_scalar_field(children[child_index])
             rest == FragmentEntries(parent_index, children, S \ {child_index})
         IN  IF child_commitment_hash = ScalarZero THEN rest
             ELSE << <<bases_index(parent_index, child_index), child_commitment_hash>> >>
                  \o rest

new_with_children(parent_index, children) ==
    IF parent_index >= PORTAL_NETWORK_NODE_WIDTH THEN Panic
    ELSE [parent_index |-> parent_index,
          commitment |-> commit_sparse(FragmentEntries(parent_index, children,
                                                       DOMAIN children)),
          children |-> children]

BranchFragmentNodeNew(parent_index) ==
    new_with_children(parent_index,
                      [child_index \in 0..(PORTAL_NETWORK_NODE_WIDTH - 1) |-> PointZero])

\* a set that adds the hash of the new child only
BranchFragmentNodeSet_NoOld(node, child_index, child) ==
    [node EXCEPT !.commitment =
                     PointAdd(@, scalar_mul(bases_index(node.parent_index, child_index),
                                            map_to_scalar_field(child))),
                 !.children[child_index] = child]

\* BranchFragmentNode::set; indexing the array out of its bounds aborts
BranchFragmentNodeSet(node, child_index, child) ==
    IF child_index \notin DOMAIN node.children THEN Panic
    ELSE [node EXCEPT !.commitment =
                          PointAdd(@, scalar_mul(
                              bases_index(node.parent_index, child_index),
                              ScalarSub(map_to_scalar_field(child),
                                        map_to_scalar_field(node.children[child_index])))),
                      !.children[child_index] = child]

BranchFragmentNodeGet(node, child_index) == node.children[child_index]

\* parent indices at both ends and one past the end; child indices at both
\* ends and one past the end; the zero point and two other points
FragmentParentIndices == {0, 1, PORTAL_NETWORK_NODE_WIDTH - 1, PORTAL_NETWORK_NODE_WIDTH}
FragmentChildIndices == {0, PORTAL_NETWORK_NODE_WIDTH - 1, PORTAL_NETWORK_NODE_WIDTH}
FragmentPoints == {PointZero, scalar_mul(0, 1), scalar_mul(3, 2)}

\* BranchFragmentNode::new
FragmentNewCall(parent_index) ==
    /\ fragment_node.node = None
    /\ fragment_node' = [fragment_node EXCEPT !.node = BranchFragmentNodeNew(parent_index)]
    /\ ret' = [op |-> "fragment_new", parent_index |-> parent_index]
    /\ UNCHANGED <<leaf, nsets, root, nops, err, written, genesis_config, gossip, fetcher>>

\* BranchFragmentNode::set; an abort ends the run
FragmentSetCall(child_index, child) ==
    /\ fragment_node.node \notin {None, Panic}
    /\ Len(fragment_node.sets) < MaxFragmentSets
    /\ fragment_node' =
           [node |-> BranchFragmentNodeSet(fragment_node.node, child_index, child),
            sets |-> Append(fragment_node.sets, <<child_index, child>>)]
    /\ ret' = [op |-> "fragment_set", child_index |-> child_index, child |-> child,
               before |-> fragment_node.node]
    /\ UNCHANGED <<leaf, nsets, root, nops, err, written, genesis_config, gossip, fetcher>>

NextFragment ==
    \/ \E parent_index \in FragmentParentIndices : FragmentNewCall(parent_index)
    \/ \E child_index \in FragmentChildIndices, child \in FragmentPoints :
           FragmentSetCall(child_index, child)

\* a BranchFragmentNode under new and set
SpecFragment == Init /\ [][NextFragment]_vars

\* the sum of G[parent_index * W + k] * hash(children[k]) over the k of S
RECURSIVE FragmentSum(_, _, _)
FragmentSum(parent_index, children, S) ==
    IF S = {} THEN PointZero
    ELSE LET k == CHOOSE i \in S : TRUE
         IN  PointAdd([i \in {parent_index * PORTAL_NETWORK_NODE_WIDTH + k}
                          |-> map_to_scalar_field(children[k])],
                      FragmentSum(parent_index, children, S \ {k}))

\* the set calls at child_index, by their place in the sequence
SetsAt(child_index) ==
    {i \in DOMAIN fragment_node.sets : fragment_node.sets[i][1] = child_index}

\* C30: after any sequence of set calls on a BranchFragmentNode created with
\* parent index p its commitment is the one new_with_children(p, children)
\* computes of its current children, the sum over k of
\* G[p * W + k] * hash(children[k]); a child set back to the zero point
\* contributes nothing, and get(k) returns the last point set at k.
C30_FragmentCommitment ==
    fragment_node.node \notin {None, Panic} =>
        LET node == fragment_node.node
            W == PORTAL_NETWORK_NODE_WIDTH
            terms == {k \in 0..(W - 1) : map_to_scalar_field(node.children[k]) # 0}
        IN  /\ node.commitment =
                   new_with_children(node.parent_index, node.children).commitment
            /\ node.commitment = FragmentSum(node.parent_index, node.children, terms)
            /\ \A k \in 0..(W - 1) :
                   /\ BranchFragmentNodeGet(node, k) =
                          IF SetsAt(k) = {} THEN PointZero
                          ELSE fragment_node.sets[Max(SetsAt(k))][2]
                   /\ node.children[k] = PointZero =>
                          node.parent_index * W + k \notin DOMAIN node.commitment

\* a child was set to a point and back to the zero point, and another child
\* holds a point, in a fragment that is not the first
C30_Witness ==
    /\ fragment_node.node \notin {None, Panic}
    /\ fragment_node.node.parent_index > 0
    /\ Len(fragment_node.sets) = 3
    /\ \E i, j \in DOMAIN fragment_node.sets :
           /\ i < j
           /\ fragment_node.sets[i][1] = fragment_node.sets[j][1]
           /\ fragment_node.sets[i][2] # PointZero
           /\ fragment_node.sets[j][2] = PointZero
           /\ BranchFragmentNodeGet(fragment_node.node, fragment_node.sets[i][1]) = PointZero
    /\ fragment_node.node.commitment # PointZero


---------------------------------------------------------------------------
(* StateTrieFetcher (portal-verkle/src/state_trie_fetcher.rs).  fetcher is *)
(* [pc, stack, trie, result, fetches]: "idle" before the call, "fetch" at  *)
(* the await of fetch_content, "returned" after; the stack of content keys *)
(* still to fetch, its last element on top; the trie being built, None     *)
(* once it is dropped; what fetch_state_trie returned; the number of       *)
(* fetch_content calls made.  A content value is [wrapper, node] with      *)
(* wrapper "Node" or "NodeWithProof".                                      *)

MaxFetches == 4

\* node.verify(commitment): the node is the node the commitment commits to
verify(node, commitment) == node.commitment = commitment

\* the arm of the match that takes every node it is given, unchecked
FetchedItems_Unchecked(key, node, trie) ==
    CASE node.kind = "BranchBundle" ->
             Ok([push |-> [i \in DOMAIN node.fragments |->
                              [key |-> "BranchFragment", commitment |-> node.fragments[i]]],
                 trie |-> trie])
      [] node.kind = "LeafBundle" ->
             Ok([push |-> [i \in DOMAIN node.fragments |->
                              [key |-> "LeafFragment", stem |-> node.stem,
                               commitment |-> node.fragments[i]]],
                 trie |-> trie])
      [] node.kind = "BranchFragment" ->
             Ok([push |-> [i \in DOMAIN node.children |->
                              [key |-> "Bundle", commitment |-> node.children[i]]],
                 trie |-> trie])
      [] OTHER ->
             Ok([push |-> <<>>,
                 trie |-> TrieUpdate(trie,
                              <<[stem |-> IF key.key = "LeafFragment" THEN key.stem ELSE StemA,
                                 writes |-> [i \in DOMAIN node.children |->
                                                Write(node.fragment_index
                                                          * PORTAL_NETWORK_NODE_WIDTH
                                                      + node.children[i][1],
                                                      None, node.children[i][2])]]>>,
                              {}).node])

\* the arm of the match for a node: the keys it pushes and the trie it
\* leaves, or the error it returns with
FetchedItems(key, node, trie) ==
    CASE node.kind = "BranchBundle" ->
             IF key.key # "Bundle" THEN Err("Invalid BranchBundle value received!")
             ELSE IF ~ verify(node, key.commitment) THEN Err("verify")
             ELSE Ok([push |-> [i \in DOMAIN node.fragments |->
                                   [key |-> "BranchFragment",
                                    commitment |-> node.fragments[i]]],
                      trie |-> trie])
      [] node.kind = "LeafBundle" ->
             IF key.key # "Bundle" THEN Err("Invalid LeafBundle value received!")
             ELSE IF ~ verify(node, key.commitment) THEN Err("verify")
             ELSE Ok([push |-> [i \in DOMAIN node.fragments |->
                                   [key |-> "LeafFragment", stem |-> node.stem,
                                    commitment |-> node.fragments[i]]],
                      trie |-> trie])
      [] node.kind = "BranchFragment" ->
             IF key.key # "BranchFragment"
             THEN Err("Invalid BranchFragment value received!")
             ELSE IF ~ verify(node, key.commitment) THEN Err("verify")
             ELSE Ok([push |-> [i \in DOMAIN node.children |->
                                   [key |-> "Bundle", commitment |-> node.children[i]]],
                      trie |-> trie])
      [] node.kind = "LeafFragment" ->
             IF key.key # "LeafFragment" THEN Err("Invalid LeafFragment value received!")
             ELSE IF ~ verify(node, key.commitment) THEN Err("verify")
             ELSE \* the Result of trie.update is not looked at
                  Ok([push |-> <<>>,
                      trie |-> TrieUpdate(trie,
                                   <<[stem |-> key.stem,
                                      writes |-> [i \in DOMAIN node.children |->
                                                     Write(node.fragment_index
                                                               * PORTAL_NETWORK_NODE_WIDTH
                                                           + node.children[i][1],
                                                           None, node.children[i][2])]]>>,
                                   {}).node])

\* the end of a turn of the loop: the error returned, or the keys pushed and
\* the return when the stack is empty
fetch_state_trie_next(f, rest, items) ==
    IF ~ items.ok
    THEN [f EXCEPT !.pc = "returned", !.stack = <<>>, !.trie = None,
                   !.result = Some(Err(items.error)), !.fetches = @ + 1]
    ELSE IF rest \o items.value.push = <<>>
    THEN [f EXCEPT !.pc = "returned", !.stack = <<>>,
                   !.trie = items.value.trie,
                   !.result = Some(Ok(items.value.trie)),
                   !.fetches = @ + 1]
    ELSE [f EXCEPT !.stack = rest \o items.value.push,
                   !.trie = items.value.trie,
                   !.fetches = @ + 1]

\* one turn of the loop of fetch_state_trie from the answer of fetch_content
\* on: None when the content was not found
fetch_state_trie_turn(f, response) ==
    fetch_state_trie_next(
        f, SubSeq(f.stack, 1, Len(f.stack) - 1),
        IF response = None THEN Err("Couldn't find content for key")
        ELSE IF Unwrap(response).wrapper # "Node"
        THEN Err("Invalid content value received")
        ELSE FetchedItems(f.stack[Len(f.stack)], Unwrap(response).node, f.trie))

\* the commitments in keys and nodes, and the content values the network
\* answers with: each kind of node, for each commitment, with and without proof
FetchPoints == {scalar_mul(0, 1), scalar_mul(1, 1)}
FetchedNodes ==
    UNION {{[kind |-> "BranchBundle", commitment |-> c, fragments |-> <<scalar_mul(1, 1)>>],
            [kind |-> "BranchBundle", commitment |-> c,
             fragments |-> <<scalar_mul(1, 1), scalar_mul(0, 1)>>],
            [kind |-> "LeafBundle", commitment |-> c, stem |-> StemA,
             fragments |-> <<scalar_mul(0, 1)>>],
            [kind |-> "BranchFragment", commitment |-> c,
             fragment_index |-> 0, children |-> <<scalar_mul(0, 1)>>],
            [kind |-> "LeafFragment", commitment |-> c,
             fragment_index |-> 1, children |-> << <<2, ValueHi>> >>]} :
              c \in FetchPoints}
ContentValues == [wrapper : {"Node", "NodeWithProof"}, node : FetchedNodes]

\* fetch_state_trie up to the first await of fetch_content
FetchStateTrieCall(state_root) ==
    /\ fetcher.pc = "idle"
    /\ fetcher' = [fetcher EXCEPT !.pc = "fetch",
                                  !.stack = <<[key |-> "Bundle", commitment |-> state_root]>>,
                                  !.trie = BranchNew(0)]
    /\ ret' = [op |-> "fetch_state_trie", state_root |-> state_root]
    /\ UNCHANGED <<leaf, nsets, root, nops, err, written, genesis_config, gossip,
                   fragment_node>>

\* the await of fetch_content ends and the loop runs to the next await or
\* to the return
FetchContentAwait(response) ==
    /\ fetcher.pc = "fetch"
    /\ fetcher.fetches < MaxFetches
    /\ fetcher' = fetch_state_trie_turn(fetcher, response)
    /\ ret' = [op |-> "fetch_content", key |-> fetcher.stack[Len(fetcher.stack)],
               response |-> response, before |-> fetcher]
    /\ UNCHANGED <<leaf, nsets, root, nops, err, written, genesis_config, gossip,
                   fragment_node>>

NextFetch ==
    \/ \E state_root \in FetchPoints : FetchStateTrieCall(state_root)
    \/ \E response \in {None} \cup {Some(content) : content \in ContentValues} :
           FetchContentAwait(response)

\* fetch_state_trie against a network that answers with any content value
SpecFetch == Init /\ [][NextFetch]_vars

\* C29: fetch_state_trie uses a content value only after checking it: the
\* commitments of a value are pushed, or its leaf values written into the
\* trie, only if the kind of the value matches the kind of the key it was
\* requested with and node.verify against the commitment of the key
\* succeeded; a kind mismatch, a failed verification, a value with proof or
\* missing content makes the call return an error and no trie.
C29_CheckedBeforeUse ==
    ret.op = "fetch_content" =>
        LET key == ret.key
            before == ret.before
            rest == SubSeq(before.stack, 1, Len(before.stack) - 1)
            matches(node) ==
                \/ key.key = "Bundle" /\ node.kind \in {"BranchBundle", "LeafBundle"}
                \/ key.key = "BranchFragment" /\ node.kind = "BranchFragment"
                \/ key.key = "LeafFragment" /\ node.kind = "LeafFragment"
            checked ==
                /\ IsSome(ret.response)
                /\ Unwrap(ret.response).wrapper = "Node"
                /\ matches(Unwrap(ret.response).node)
                /\ verify(Unwrap(ret.response).node, key.commitment)
            used ==
                \/ fetcher.trie \notin {None, before.trie}
                \/ fetcher.stack \notin {<<>>, rest}
                \/ (IsSome(fetcher.result) /\ Unwrap(fetcher.result).ok)
        IN  /\ used => checked
            /\ ~ checked =>
                   /\ fetcher.pc = "returned"
                   /\ IsSome(fetcher.result)
                   /\ ~ Unwrap(fetcher.result).ok
                   /\ fetcher.trie = None
                   /\ fetcher.stack = <<>>
            /\ checked =>
                   /\ fetcher.trie # None
                   /\ IsSome(fetcher.result) =>
                          /\ Unwrap(fetcher.result) = Ok(fetcher.trie)
                          /\ fetcher.stack = <<>>
                   /\ Unwrap(ret.response).node.kind = "LeafFragment" =>
                          BranchGet(fetcher.trie,
                                    MkKey(key.stem, PORTAL_NETWORK_NODE_WIDTH + 2))
                              = Some(ValueHi)

\* fetch_state_trie has returned a trie with a value in it, after a branch
\* bundle, a branch fragment, a leaf bundle and a leaf fragment
C29_Witness ==
    /\ fetcher.pc = "returned"
    /\ fetcher.fetches = 4
    /\ IsSome(fetcher.result)
    /\ Unwrap(fetcher.result).ok
    /\ BranchGet(Unwrap(fetcher.result).value,
                 MkKey(StemA, PORTAL_NETWORK_NODE_WIDTH + 2)) = Some(ValueHi)

(***************************************************************************)
(* StemStateDiff::into_stem_state_write on its own: the StemStateDiffs of  *)
(* a witness with up to MaxSuffixDiffs suffix diffs, a suffix read only    *)
(* (no new_value), written, and met more than once in the list.            *)
(***************************************************************************)
MaxSuffixDiffs == 3

WitnessSuffixStateDiffs ==
    [suffix : {0, 1},
     current_value : {None, Some(ValueLo)},
     new_value : {None, Some(ValueLo), Some(ValueHi)}]

WitnessStemStateDiffs ==
    [stem : {StemA, StemB},
     suffix_diffs : UNION {[1..n -> WitnessSuffixStateDiffs] : n \in 0..MaxSuffixDiffs}]

\* a call of into_stem_state_write, which consumes the StemStateDiff; order
\* is the iteration order of the HashMap it returns.  The function reads
\* nothing but its argument, so one call per behaviour covers every call.
IntoStemStateWriteCall(stem_state_diff, order) ==
    /\ ret.op = "none"
    /\ ret' = [op |-> "into_stem_state_write", state_diff |-> stem_state_diff,
               order |-> order,
               result |-> into_stem_state_write(stem_state_diff, order)]
    /\ UNCHANGED <<leaf, nsets, root, nops, err, written, genesis_config, gossip,
                   fragment_node, fetcher>>

NextWitness ==
    \E stem_state_diff \in WitnessStemStateDiffs :
        \E order \in IterationOrders(
                         DOMAIN CollectedWrites(stem_state_diff.suffix_diffs)) :
            IntoStemStateWriteCall(stem_state_diff, order)

\* the StemStateDiffs of a witness turned into StemStateWrites
SpecWitness == Init /\ [][NextWitness]_vars

\* the StemStateDiff with its current values replaced
WithCurrentValues(stem_state_diff, current_values) ==
    [stem_state_diff EXCEPT !.suffix_diffs =
        [i \in DOMAIN @ |-> [@[i] EXCEPT !.current_value = current_values[i]]]]

\* C31: into_stem_state_write returns None exactly when no suffix diff has a
\* new_value; otherwise it returns a StemStateWrite with the same stem whose
\* writes hold exactly the suffixes that have a new_value, each once and
\* mapped to the new_value of the last diff of that suffix in list order that
\* has one; a suffix diff without a new_value produces no write, and the
\* result is the same whatever the current values are.
C31_IntoStemStateWrite ==
    ret.op = "into_stem_state_write" =>
        LET diffs == ret.state_diff.suffix_diffs
            with_new_value == {i \in DOMAIN diffs : IsSome(diffs[i].new_value)}
            suffixes == {diffs[i].suffix : i \in with_new_value}
        IN  /\ ret.result = None <=> with_new_value = {}
            /\ IsSome(ret.result) =>
                   LET state_write == Unwrap(ret.result)
                   IN  /\ state_write.stem = ret.state_diff.stem
                       /\ {state_write.writes[k].suffix :
                               k \in DOMAIN state_write.writes} = suffixes
                       /\ Len(state_write.writes) = Cardinality(suffixes)
                       /\ \A k \in DOMAIN state_write.writes :
                              \E i \in with_new_value :
                                  /\ diffs[i].suffix = state_write.writes[k].suffix
                                  /\ \A j \in with_new_value :
                                         diffs[j].suffix = diffs[i].suffix => j <= i
                                  /\ state_write.writes[k].value =
                                         Unwrap(diffs[i].new_value)
                                  /\ state_write.writes[k].expected = None
            /\ \A current_values \in [DOMAIN diffs -> {None, Some(ValueLo), Some(ValueHi)}] :
                   into_stem_state_write(
                       WithCurrentValues(ret.state_diff, current_values),
                       ret.order) = ret.result

\* a diff that writes suffix 0 twice with different values and only reads
\* suffix 1, its current value disagreeing with both new values of suffix 0
C31_Witness ==
    /\ ret.op = "into_stem_state_write"
    /\ ret.state_diff.suffix_diffs =
           <<[suffix |-> 0, current_value |-> Some(ValueLo), new_value |-> Some(ValueHi)],
             [suffix |-> 1, current_value |-> Some(ValueLo), new_value |-> None],
             [suffix |-> 0, current_value |-> None, new_value |-> Some(ValueLo)]>>
    /\ ret.result = Some([stem |-> ret.state_diff.stem,
                          writes |-> <<Write(0, None, ValueLo)>>])

----------------------------------------------------------------------------
(* C32: gossip_slot of a slot without a block *)

\* C32: when fetch_beacon_block returns an error or no block, gossip_slot
\* returns Ok with process_block not called and nothing gossiped: the trie,
\* the error state and the number of the last processed block are what they
\* were, no node is queued or sent, and main goes on to the next slot.
C32_BlockNotFoundSkips ==
    [][ret'.op = "block_not_found" =>
           /\ root' = root
           /\ nops' = nops
           /\ err' = err
           /\ written' = written
           /\ gossip'.block_number = gossip.block_number
           /\ gossip'.gossiped = gossip.gossiped
           /\ gossip'.sent = gossip.sent
           /\ gossip'.queue = <<>>
           /\ gossip'.pc = "idle"
           /\ gossip'.slot = gossip.slot + 1]_vars

\* the block of slot 1 was processed and gossiped, no block was found for
\* slot 2 and main is about to return
C32_Witness ==
    /\ ret.op = "block_not_found"
    /\ gossip.slot = MaxSlots + 1
    /\ gossip.pc = "idle"
    /\ gossip.block_number = 1
    /\ nops = 1
    /\ root = ret.before
    /\ gossip.sent > 1

====
